---- MODULE Spec2Model ----
(***************************************************************************)
(* Model of the scripture service (internal/scripture/service.go): the     *)
(* in-memory Verse Store and Collection Index built by the loader, and the *)
(* read-only queries over them (search with filters, verse/range lookup,   *)
(* chapter lookup, term counting).                                         *)
(*                                                                         *)
(* Go strings are modelled as sequences of byte values (ASCII codes), so   *)
(* that lowercasing, substring search, tokenisation and the byte-wise      *)
(* string order are computed and not assumed.  Only ASCII text is used.    *)
(***************************************************************************)
EXTENDS Integers, Sequences, FiniteSets, TLC

VARIABLES
    scriptures,   \* Service.scriptures : book name -> sequence of Scripture
    collections,  \* Service.collections: collection name -> sequence of book names
    pc,           \* "loading" while NewService runs loadScriptures, then "serving"
    nLoaded,      \* number of documents handed to parseAndStore so far
    op,           \* the query whose result is held ("none" while the service is idle)
    args,         \* its arguments
    result,       \* its return value
    prevResult    \* <<r>> when the search that ran last repeated the call before
                  \* it with identical arguments and that call returned r,
                  \* <<>> otherwise

vars == <<scriptures, collections, pc, nLoaded, op, args, result, prevResult>>

(***************************************************************************)
(* Bounds of the model.                                                    *)
(***************************************************************************)
MaxFiles == 2   \* documents handed to parseAndStore during one load
MaxLimit == 2   \* largest search limit tried
MaxRefLen == 5  \* longest reference string typed byte by byte

(***************************************************************************)
(* String literals (byte sequences).                                       *)
(***************************************************************************)
s_1Nephi == <<49, 32, 78, 101, 112, 104, 105>>  \* "1 Nephi"
s_John == <<74, 111, 104, 110>>  \* "John"
s_Acts == <<65, 99, 116, 115>>  \* "Acts"
s_Genesis == <<71, 101, 110, 101, 115, 105, 115>>  \* "Genesis"
s_john == <<106, 111, 104, 110>>  \* "john"
s_Ruth == <<82, 117, 116, 104>>  \* "Ruth"
s_BookOfMormon == <<66, 111, 111, 107, 32, 111, 102, 32, 77, 111, 114, 109, 111, 110>>  \* "Book of Mormon"
s_DoctrineAndCovenants == <<68, 111, 99, 116, 114, 105, 110, 101, 32, 97, 110, 100, 32, 67, 111, 118, 101, 110, 97, 110, 116, 115>>  \* "Doctrine and Covenants"
s_PearlOfGreatPrice == <<80, 101, 97, 114, 108, 32, 111, 102, 32, 71, 114, 101, 97, 116, 32, 80, 114, 105, 99, 101>>  \* "Pearl of Great Price"
s_OldTestament == <<79, 108, 100, 32, 84, 101, 115, 116, 97, 109, 101, 110, 116>>  \* "Old Testament"
s_NewTestament == <<78, 101, 119, 32, 84, 101, 115, 116, 97, 109, 101, 110, 116>>  \* "New Testament"
s_Unknown == <<85, 110, 107, 110, 111, 119, 110>>  \* "Unknown"
s_newTestamentLc == <<110, 101, 119, 32, 116, 101, 115, 116, 97, 109, 101, 110, 116>>  \* "new testament"
s_Apocrypha == <<65, 112, 111, 99, 114, 121, 112, 104, 97>>  \* "Apocrypha"
s_A12 == <<65, 32, 49, 58, 50>>  \* "A 1:2"
n_3 == <<51>>  \* "3"
n_16 == <<49, 54>>  \* "16"
n_07 == <<48, 55>>  \* "07"
ref_1Ne_1_1_2 == <<49, 32, 78, 101, 112, 104, 105, 32, 49, 58, 49, 45, 50>>  \* "1 Nephi 1:1-2"
ref_Ruth_1_1 == <<82, 117, 116, 104, 32, 49, 58, 49>>  \* "Ruth 1:1"
ref_John_9_9 == <<74, 111, 104, 110, 32, 57, 58, 57>>  \* "John 9:9"
ref_John_1 == <<74, 111, 104, 110, 32, 49>>  \* "John 1"
ref_1Ne_1 == <<49, 32, 78, 101, 112, 104, 105, 32, 49>>  \* "1 Nephi 1"
ref_1Ne_2 == <<49, 32, 78, 101, 112, 104, 105, 32, 50>>  \* "1 Nephi 2"
ref_Ruth_1 == <<82, 117, 116, 104, 32, 49>>  \* "Ruth 1"
ref_John_7 == <<74, 111, 104, 110, 32, 55>>  \* "John 7"
s_five == <<53>>  \* "5"
k_bookOfMormon == <<98, 111, 111, 107, 45, 111, 102, 45, 109, 111, 114, 109, 111, 110>>  \* "book-of-mormon"
k_doctrineAndCovenants == <<100, 111, 99, 116, 114, 105, 110, 101, 45, 97, 110, 100, 45, 99, 111, 118, 101, 110, 97, 110, 116, 115>>  \* "doctrine-and-covenants"
k_pearlOfGreatPrice == <<112, 101, 97, 114, 108, 45, 111, 102, 45, 103, 114, 101, 97, 116, 45, 112, 114, 105, 99, 101>>  \* "pearl-of-great-price"
k_oldTestament == <<111, 108, 100, 45, 116, 101, 115, 116, 97, 109, 101, 110, 116>>  \* "old-testament"
k_newTestament == <<110, 101, 119, 45, 116, 101, 115, 116, 97, 109, 101, 110, 116>>  \* "new-testament"
f_bom == <<98, 111, 111, 107, 45, 111, 102, 45, 109, 111, 114, 109, 111, 110, 46, 106, 115, 111, 110>>  \* "book-of-mormon.json"
f_nt == <<110, 101, 119, 45, 116, 101, 115, 116, 97, 109, 101, 110, 116, 46, 106, 115, 111, 110>>  \* "new-testament.json"
f_ot == <<111, 108, 100, 45, 116, 101, 115, 116, 97, 109, 101, 110, 116, 46, 106, 115, 111, 110>>  \* "old-testament.json"
f_pgp == <<112, 101, 97, 114, 108, 45, 111, 102, 45, 103, 114, 101, 97, 116, 45, 112, 114, 105, 99, 101, 46, 106, 115, 111, 110>>  \* "pearl-of-great-price.json"
f_otCopy == <<98, 97, 107, 47, 111, 108, 100, 45, 116, 101, 115, 116, 97, 109, 101, 110, 116, 46, 106, 115, 111, 110>>  \* "bak/old-testament.json"
f_notes == <<110, 111, 116, 101, 115, 46, 106, 115, 111, 110>>  \* "notes.json"
k_json == <<46, 106, 115, 111, 110>>  \* ".json"
f_dc == <<100, 111, 99, 116, 114, 105, 110, 101, 45, 97, 110, 100, 45, 99, 111, 118, 101, 110, 97, 110, 116, 115, 46, 106, 115, 111, 110>>  \* "doctrine-and-covenants.json"
f_readme == <<82, 69, 65, 68, 77, 69, 46, 109, 100>>  \* "README.md"
f_bakDir == <<98, 97, 107, 47>>  \* "bak/"
t_1Ne_1_1 == <<84, 104, 101, 32, 76, 111, 114, 100, 32, 105, 115, 32, 71, 111, 100>>  \* "The Lord is God"
t_1Ne_1_2 == <<111, 102, 32, 116, 104, 101, 32, 76, 111, 114, 100, 39, 115>>  \* "of the Lord's"
t_1Ne_2_1 == <<71, 111, 100, 44, 32, 116, 104, 101, 32, 108, 111, 114, 100>>  \* "God, the lord"
t_John_1_1 == <<71, 111, 100, 32, 108, 111, 118, 101, 100, 32, 116, 104, 101, 32, 119, 111, 114, 108, 100>>  \* "God loved the world"
t_Acts_1_1 == <<116, 104, 101, 32, 76, 79, 82, 68>>  \* "the LORD"
t_Gen_1_1 == <<71, 111, 100, 32, 109, 97, 100, 101, 32, 116, 104, 101, 32, 101, 97, 114, 116, 104>>  \* "God made the earth"
r_1Ne_1_1 == <<49, 32, 78, 101, 112, 104, 105, 32, 49, 58, 49>>  \* "1 Nephi 1:1"
r_1Ne_1_2 == <<49, 32, 78, 101, 112, 104, 105, 32, 49, 58, 50>>  \* "1 Nephi 1:2"
r_1Ne_2_1 == <<49, 32, 78, 101, 112, 104, 105, 32, 50, 58, 49>>  \* "1 Nephi 2:1"
r_John_1_1 == <<74, 111, 104, 110, 32, 49, 58, 49>>  \* "John 1:1"
r_Acts_1_1 == <<65, 99, 116, 115, 32, 49, 58, 49>>  \* "Acts 1:1"
r_Gen_1_1 == <<71, 101, 110, 101, 115, 105, 115, 32, 49, 58, 49>>  \* "Genesis 1:1"
q_God == <<71, 111, 100>>  \* "God"
q_the == <<116, 104, 101>>  \* "the"
q_LORD == <<76, 79, 82, 68>>  \* "LORD"
q_nephi == <<110, 101, 112, 104, 105>>  \* "nephi"
q_Gad == <<71, 97, 100>>  \* "Gad"
q_Gods == <<71, 111, 100, 115>>  \* "Gods"
q_LordSp == <<76, 111, 114, 100, 32>>  \* "Lord "
q_Lordss == <<76, 111, 114, 100, 115, 115>>  \* "Lordss"
q_worl == <<119, 111, 114, 108>>  \* "worl"
w_the == <<116, 104, 101>>  \* "the"
w_The == <<84, 104, 101>>  \* "The"
w_Lord == <<76, 111, 114, 100>>  \* "Lord"
w_lord == <<108, 111, 114, 100>>  \* "lord"
w_god == <<103, 111, 100>>  \* "god"
w_faith == <<102, 97, 105, 116, 104>>  \* "faith"
w_lords == <<108, 111, 114, 100, 39, 115>>  \* "lord's"

(***************************************************************************)
(* Go string primitives on byte sequences.                                 *)
(***************************************************************************)
\* strings.ToLower, ASCII: 'A'..'Z' (65..90) map to 'a'..'z'
ToLower(s) == [i \in 1..Len(s) |-> IF s[i] \in 65..90 THEN s[i] + 32 ELSE s[i]]

\* strings.EqualFold, ASCII: equality under simple case folding
EqualFold(a, b) == ToLower(a) = ToLower(b)

\* strings.Contains
Contains(s, substr) ==
    \E i \in 0..(Len(s) - Len(substr)) : SubSeq(s, i + 1, i + Len(substr)) = substr

\* the built-in < on Go strings: byte-wise lexicographic order (the first
\* differing byte decides; a proper prefix is smaller)
StrLess(a, b) ==
    LET n == IF Len(a) < Len(b) THEN Len(a) ELSE Len(b)
        diff == {i \in 1..n : a[i] # b[i]}
    IN  IF diff = {} THEN Len(a) < Len(b)
        ELSE LET d == CHOOSE i \in diff : \A j \in diff : i <= j IN a[d] < b[d]

\* one step of insertion sort on strings: x moves left past every element it
\* is strictly less than (equal elements keep their order)
RECURSIVE insertString(_, _)
insertString(s, x) ==
    IF s = <<>> THEN <<x>>
    ELSE IF StrLess(x, s[Len(s)])
         THEN Append(insertString(SubSeq(s, 1, Len(s) - 1), x), s[Len(s)])
         ELSE Append(s, x)

\* sort.Strings on at most 12 elements: package sort runs plain insertion sort
\* on slices of length <= 12
RECURSIVE SortStrings(_)
SortStrings(s) ==
    IF s = <<>> THEN <<>>
    ELSE insertString(SortStrings(SubSeq(s, 1, Len(s) - 1)), s[Len(s)])

\* all orders in which a Go `range` may visit the keys of a map
RECURSIVE KeyOrders(_)
KeyOrders(keys) ==
    IF keys = {} THEN {<<>>}
    ELSE UNION {{<<k>> \o rest : rest \in KeyOrders(keys \ {k})} : k \in keys}

(***************************************************************************)
(* Loader: ScriptureData documents and parseAndStore.                      *)
(***************************************************************************)
\* type Scripture
Scripture(book, collection, chapter, verse, text, reference) ==
    [Book |-> book, Collection |-> collection, Chapter |-> chapter,
     Verse |-> verse, Text |-> text, Reference |-> reference]

\* getCollectionName: filename -> display name, first matching case wins
getCollectionName(filename) ==
    IF Contains(filename, k_bookOfMormon) THEN s_BookOfMormon
    ELSE IF Contains(filename, k_doctrineAndCovenants) THEN s_DoctrineAndCovenants
    ELSE IF Contains(filename, k_pearlOfGreatPrice) THEN s_PearlOfGreatPrice
    ELSE IF Contains(filename, k_oldTestament) THEN s_OldTestament
    ELSE IF Contains(filename, k_newTestament) THEN s_NewTestament
    ELSE s_Unknown

\* m[k] = append(m[k], v) on a Go map of slices
MapAppend(m, k, v) ==
    IF k \in DOMAIN m THEN [m EXCEPT ![k] = Append(@, v)] ELSE m @@ (k :> <<v>>)

\* the innermost loop of parseAndStore: the verses of one chapter
RECURSIVE storeVerses(_, _, _, _, _)
storeVerses(m, book, collection, chapter, verses) ==
    IF verses = <<>> THEN m
    ELSE storeVerses(
            MapAppend(m, book,
                Scripture(book, collection, chapter, verses[1].Verse,
                          verses[1].Text, verses[1].Reference)),
            book, collection, chapter, Tail(verses))

\* the chapter loop of parseAndStore
RECURSIVE storeChapters(_, _, _, _)
storeChapters(m, book, collection, chapters) ==
    IF chapters = <<>> THEN m
    ELSE storeChapters(
            storeVerses(m, book, collection, chapters[1].Chapter, chapters[1].Verses),
            book, collection, Tail(chapters))

\* the book loop of parseAndStore
RECURSIVE storeBooks(_, _, _)
storeBooks(m, collection, books) ==
    IF books = <<>> THEN m
    ELSE storeBooks(storeChapters(m, books[1].Book, collection, books[1].Chapters),
                    collection, Tail(books))

\* booksInCollection: the book names of the document, in document order
booksInCollection(books) == [i \in 1..Len(books) |-> books[i].Book]

\* parseAndStore's effect on Service.scriptures; an undecodable document
\* (json.Unmarshal fails) is skipped
parseAndStoreScriptures(m, data, label) ==
    IF ~data.ok THEN m ELSE storeBooks(m, getCollectionName(label), data.Books)

\* parseAndStore with the collection entry written before the decode result is
\* looked at
parseAndStoreCollectionsAlways(c, data, label) ==
    LET name == getCollectionName(label) IN
    [k \in DOMAIN c \cup {name} |->
        IF k = name THEN booksInCollection(data.Books) ELSE c[k]]

\* parseAndStore's effect on Service.collections: the entry of the document's
\* collection is overwritten with the document's book list
parseAndStoreCollections(c, data, label) ==
    IF ~data.ok THEN c
    ELSE LET name == getCollectionName(label) IN
         [k \in DOMAIN c \cup {name} |->
             IF k = name THEN booksInCollection(data.Books) ELSE c[k]]

(***************************************************************************)
(* The documents the model loads.                                          *)
(***************************************************************************)
JVerse(verse, text, reference) == [Verse |-> verse, Text |-> text, Reference |-> reference]
JChapter(chapter, verses) == [Chapter |-> chapter, Verses |-> verses]
JBook(book, chapters) == [Book |-> book, Chapters |-> chapters]

DocBoM ==
    [ok |-> TRUE, Books |-> <<
        JBook(s_1Nephi, <<
            JChapter(1, <<JVerse(1, t_1Ne_1_1, r_1Ne_1_1), JVerse(2, t_1Ne_1_2, r_1Ne_1_2)>>),
            JChapter(2, <<JVerse(1, t_1Ne_2_1, r_1Ne_2_1)>>) >>) >>]

DocNT ==
    [ok |-> TRUE, Books |-> <<
        JBook(s_John, << JChapter(1, <<JVerse(1, t_John_1_1, r_John_1_1)>>) >>),
        JBook(s_Acts, << JChapter(1, <<JVerse(1, t_Acts_1_1, r_Acts_1_1)>>) >>) >>]

DocOT ==
    [ok |-> TRUE, Books |-> <<
        JBook(s_Genesis, << JChapter(1, <<JVerse(1, t_Gen_1_1, r_Gen_1_1)>>) >>) >>]

\* a blob json.Unmarshal rejects
DocMalformed == [ok |-> FALSE, Books |-> <<>>]

\* a document that decodes to no book at all, such as {}
DocEmptyObject == [ok |-> TRUE, Books |-> <<>>]

\* a document with a book that has no chapter
DocEmptyBook == [ok |-> TRUE, Books |-> << JBook(s_Ruth, <<>>) >>]

\* (label, data) pairs as loadFromZipBytes / loadFromDir hand them to parseAndStore
Files ==
    { <<f_bom, DocBoM>>, <<f_nt, DocNT>>, <<f_ot, DocOT>>,
      <<f_otCopy, DocOT>>,      \* a second copy of a document inside the archive
      <<f_pgp, DocMalformed>>,
      <<f_notes, DocNT>> }      \* a document whose name maps to "Unknown"

(***************************************************************************)
(* Search: performSearchWithFilters.                                       *)
(* iterS and iterC are the orders in which this call's `range` statements  *)
(* visit the keys of s.scriptures and of s.collections.                    *)
(***************************************************************************)
\* the first collection, in iteration order, whose lowercased name equals the
\* lowercased filter: its book list, or nil when there is none
RECURSIVE booksOfCollection(_, _)
booksOfCollection(collectionLower, iterC) ==
    IF iterC = <<>> THEN <<>>
    ELSE IF ToLower(iterC[1]) = collectionLower THEN collections[iterC[1]]
    ELSE booksOfCollection(collectionLower, Tail(iterC))

\* searchOrder without the sort.Strings call of the unfiltered branch
searchOrderUnsorted(book, collection, iterS, iterC) ==
    IF book # <<>>
    THEN IF book \in DOMAIN scriptures THEN <<book>> ELSE <<>>
    ELSE IF collection # <<>>
    THEN booksOfCollection(ToLower(collection), iterC)
    ELSE iterS

\* the book list the search visits
searchOrder(book, collection, iterS, iterC) ==
    IF book # <<>>
    THEN IF book \in DOMAIN scriptures THEN <<book>> ELSE <<>>
    ELSE IF collection # <<>>
    THEN booksOfCollection(ToLower(collection), iterC)
    ELSE SortStrings(iterS)

\* "Apply filters": FALSE when the verse is skipped by a `continue`
passesFilters(scripture, book, collection) ==
    /\ ~(book # <<>> /\ ~EqualFold(scripture.Book, book))
    /\ ~(collection # <<>> /\ ~EqualFold(scripture.Collection, collection))

\* "Check if text matches query"
matchesQuery(scripture, queryLower) ==
    \/ Contains(ToLower(scripture.Text), queryLower)
    \/ Contains(ToLower(scripture.Book), queryLower)

\* limitReached with > written for >=
limitReachedStrict(results, limit) == Len(results) > limit

\* the test that ends the scan with an immediate return
limitReached(results, limit) == Len(results) >= limit

\* the inner loop over one book's verses; done = the function returned from
\* inside the loop
RECURSIVE scanVerses(_, _, _, _, _, _)
scanVerses(results, verses, queryLower, limit, book, collection) ==
    IF verses = <<>> THEN [results |-> results, done |-> FALSE]
    ELSE IF /\ passesFilters(verses[1], book, collection)
            /\ matchesQuery(verses[1], queryLower)
         THEN LET appended == Append(results, verses[1]) IN
              IF limitReached(appended, limit)
              THEN [results |-> appended, done |-> TRUE]
              ELSE scanVerses(appended, Tail(verses), queryLower, limit, book, collection)
         ELSE scanVerses(results, Tail(verses), queryLower, limit, book, collection)

\* the outer loop over searchOrder
RECURSIVE scanBooks(_, _, _, _, _, _)
scanBooks(results, order, queryLower, limit, book, collection) ==
    IF order = <<>> THEN [results |-> results, done |-> FALSE]
    ELSE IF order[1] \in DOMAIN scriptures
         THEN LET r == scanVerses(results, scriptures[order[1]], queryLower,
                                  limit, book, collection) IN
              IF r.done THEN r
              ELSE scanBooks(r.results, Tail(order), queryLower, limit, book, collection)
         ELSE scanBooks(results, Tail(order), queryLower, limit, book, collection)

\* the less function given to sort.Slice
lessScripture(a, b) ==
    IF a.Collection # b.Collection THEN StrLess(a.Collection, b.Collection)
    ELSE IF a.Book # b.Book THEN StrLess(a.Book, b.Book)
    ELSE IF a.Chapter # b.Chapter THEN a.Chapter < b.Chapter
    ELSE a.Verse < b.Verse

RECURSIVE insertScripture(_, _)
insertScripture(s, x) ==
    IF s = <<>> THEN <<x>>
    ELSE IF lessScripture(x, s[Len(s)])
         THEN Append(insertScripture(SubSeq(s, 1, Len(s) - 1), x), s[Len(s)])
         ELSE Append(s, x)

\* sort.Slice(results, less) on at most 12 results (insertion sort)
RECURSIVE sortResults(_)
sortResults(s) ==
    IF s = <<>> THEN <<>>
    ELSE insertScripture(sortResults(SubSeq(s, 1, Len(s) - 1)), s[Len(s)])

\* performSearchWithFilters with the book argument dropped (as the older
\* two-argument performSearch did): every book is in scope
performSearchIgnoringBook(query, limit, book, collection, iterS, iterC) ==
    LET allS == CHOOSE o \in KeyOrders(DOMAIN scriptures) : TRUE
        allC == CHOOSE o \in KeyOrders(DOMAIN collections) : TRUE
        r == scanBooks(<<>>, searchOrder(<<>>, collection, allS, allC),
                       ToLower(query), limit, <<>>, collection) IN
    IF r.done THEN r.results ELSE sortResults(r.results)

performSearchWithFilters(query, limit, book, collection, iterS, iterC) ==
    LET r == scanBooks(<<>>, searchOrder(book, collection, iterS, iterC),
                       ToLower(query), limit, book, collection) IN
    IF r.done THEN r.results ELSE sortResults(r.results)

(***************************************************************************)
(* Exact lookup: getScripturesByReference and getChapter.                  *)
(***************************************************************************)
\* inReference with the upper bound of the range exclusive
inReferenceExclusiveEnd(scripture, ref) ==
    /\ scripture.Chapter = ref.Chapter
    /\ scripture.Verse >= ref.Verse
    /\ scripture.Verse < ref.EndVerse

\* the condition under which getScripturesByReference keeps a verse
inReference(scripture, ref) ==
    /\ scripture.Chapter = ref.Chapter
    /\ scripture.Verse >= ref.Verse
    /\ scripture.Verse <= ref.EndVerse

RECURSIVE collectReference(_, _, _)
collectReference(results, verses, ref) ==
    IF verses = <<>> THEN results
    ELSE collectReference(
            IF inReference(verses[1], ref) THEN Append(results, verses[1]) ELSE results,
            Tail(verses), ref)

getScripturesByReference(ref) ==
    IF ref.Book \in DOMAIN scriptures
    THEN collectReference(<<>>, scriptures[ref.Book], ref)
    ELSE <<>>

\* inChapter with >= written for ==
inChapterOrLater(scripture, chapter) == scripture.Chapter >= chapter

\* the condition under which getChapter keeps a verse
inChapter(scripture, chapter) == scripture.Chapter = chapter

RECURSIVE collectChapter(_, _, _)
collectChapter(results, verses, chapter) ==
    IF verses = <<>> THEN results
    ELSE collectChapter(
            IF inChapter(verses[1], chapter) THEN Append(results, verses[1]) ELSE results,
            Tail(verses), chapter)

getChapter(book, chapter) ==
    IF book \in DOMAIN scriptures
    THEN collectChapter(<<>>, scriptures[book], chapter)
    ELSE <<>>

(***************************************************************************)
(* Term counter: countTerms.                                               *)
(***************************************************************************)
\* commonWords, the fixed stop-word list:
\*   a an and are as at be by for from has he
\*   in is it its of on that the to was will with
\*   his her him she they their them this these those have
commonWords ==
    { <<97>>,
      <<97, 110>>,
      <<97, 110, 100>>,
      <<97, 114, 101>>,
      <<97, 115>>,
      <<97, 116>>,
      <<98, 101>>,
      <<98, 121>>,
      <<102, 111, 114>>,
      <<102, 114, 111, 109>>,
      <<104, 97, 115>>,
      <<104, 101>>,
      <<105, 110>>,
      <<105, 115>>,
      <<105, 116>>,
      <<105, 116, 115>>,
      <<111, 102>>,
      <<111, 110>>,
      <<116, 104, 97, 116>>,
      <<116, 104, 101>>,
      <<116, 111>>,
      <<119, 97, 115>>,
      <<119, 105, 108, 108>>,
      <<119, 105, 116, 104>>,
      <<104, 105, 115>>,
      <<104, 101, 114>>,
      <<104, 105, 109>>,
      <<115, 104, 101>>,
      <<116, 104, 101, 121>>,
      <<116, 104, 101, 105, 114>>,
      <<116, 104, 101, 109>>,
      <<116, 104, 105, 115>>,
      <<116, 104, 101, 115, 101>>,
      <<116, 104, 111, 115, 101>>,
      <<104, 97, 118, 101>> }

\* the complement of the FieldsFunc separator predicate: letters, digits, "'"
isWordByte(c) == c \in 97..122 \/ c \in 65..90 \/ c \in 48..57 \/ c = 39

\* strings.FieldsFunc: the maximal runs of non-separator bytes, in order
FieldsFunc(text) ==
    LET starts == {i \in 1..Len(text) :
                      isWordByte(text[i]) /\ (i = 1 \/ ~isWordByte(text[i - 1]))}
        endOf(s) == CHOOSE e \in s..Len(text) :
                      /\ \A j \in s..e : isWordByte(text[j])
                      /\ (e = Len(text) \/ ~isWordByte(text[e + 1]))
        nth(n) == CHOOSE s \in starts : Cardinality({x \in starts : x < s}) = n - 1
    IN  [n \in 1..Cardinality(starts) |-> SubSeq(text, nth(n), endOf(nth(n)))]

\* strings.Trim(word, "'"): leading and trailing apostrophes removed
TrimApostrophes(w) ==
    LET kept == {i \in 1..Len(w) : w[i] # 39} IN
    IF kept = {} THEN <<>>
    ELSE SubSeq(w, CHOOSE i \in kept : \A j \in kept : i <= j,
                   CHOOSE i \in kept : \A j \in kept : j <= i)

\* the words of one verse as the counting loop sees them
verseWords(scripture) ==
    LET words == FieldsFunc(ToLower(scripture.Text)) IN
    [i \in 1..Len(words) |-> ToLower(TrimApostrophes(words[i]))]

\* "Initialize counts": one key per lowercased term
countKeys(terms) == {ToLower(terms[i]) : i \in 1..Len(terms)}

\* "Determine which books to search"
searchBooks(book, collection, iterS, iterC) ==
    IF book # <<>> THEN <<book>>
    ELSE IF collection # <<>> THEN booksOfCollection(ToLower(collection), iterC)
    ELSE iterS

\* the words of a verse the counting loop does not skip with `continue`
countedWordIndices(words, ignoreCommon) ==
    {w \in 1..Len(words) : ~(ignoreCommon /\ words[w] \in commonWords)}

\* "Count occurrences": every execution of counts[strings.ToLower(term)]++,
\* named by the iteration it happens in: <<b, v, w, t>> is the b-th entry of
\* searchBooks, that book's v-th verse, the verse's w-th word and the t-th term
countIncrements(books, terms, ignoreCommon) ==
    UNION { UNION { UNION {
        {<<b, v, w, t>> :
            t \in {t \in 1..Len(terms) :
                     verseWords(scriptures[books[b]][v])[w] = ToLower(terms[t])}} :
        w \in countedWordIndices(verseWords(scriptures[books[b]][v]), ignoreCommon)} :
        v \in 1..Len(scriptures[books[b]])} :
        b \in {b \in 1..Len(books) : books[b] \in DOMAIN scriptures}}

\* the counts map returned: each key holds the number of increments made to it
countTerms(terms, book, collection, ignoreCommon, iterS, iterC) ==
    LET increments == countIncrements(searchBooks(book, collection, iterS, iterC),
                                      terms, ignoreCommon) IN
    [k \in countKeys(terms) |->
        Cardinality({x \in increments : ToLower(terms[x[4]]) = k})]

(***************************************************************************)
(* The earlier revision of the service that has the fuzzy pass             *)
(* (performSearch, performExactSearch, performFuzzySearch).                *)
(***************************************************************************)
\* the Scripture of that revision: no Collection field
legacyScripture(s) ==
    [Book |-> s.Book, Chapter |-> s.Chapter, Verse |-> s.Verse, Text |-> s.Text,
     Reference |-> s.Reference]

\* parseAndStore of that revision: the same walk over the document as
\* storeBooks, each verse stored without a collection; an undecodable
\* document is skipped
legacyParseAndStore(m, data, label) ==
    IF ~data.ok THEN m
    ELSE LET stored == storeBooks(m, getCollectionName(label), data.Books)
         IN  [b \in DOMAIN stored |->
                [i \in 1..Len(stored[b]) |-> legacyScripture(stored[b][i])]]

\* the verses of the store in the order one `range s.scriptures` with the
\* inner loop over the book's slice visits them
RECURSIVE scanOrder(_)
scanOrder(iter) ==
    IF iter = <<>> THEN <<>> ELSE scriptures[iter[1]] \o scanOrder(Tail(iter))

\* the condition of performExactSearch
exactMatch(scripture, queryLower) ==
    \/ Contains(ToLower(scripture.Text), queryLower)
    \/ Contains(ToLower(scripture.Book), queryLower)

\* performExactSearch: the matches in scan order; the function returns as soon
\* as an append makes len(results) >= limit
performExactSearch(queryLower, limit, iter) ==
    LET scan == scanOrder(iter)
        hits == {n \in 1..Len(scan) : exactMatch(scan[n], queryLower)}
        rank(n) == Cardinality({m \in hits : m <= n})
        kept == {n \in hits : \A m \in hits : m < n => rank(m) < limit}
        nth(k) == CHOOSE n \in kept : Cardinality({m \in kept : m < n}) = k - 1
    IN  [k \in 1..Cardinality(kept) |-> scan[nth(k)]]

\* fuzzy.LevenshteinDistance: one column of the dynamic-programming table is
\* updated per character c of the second string; cur holds the entries of the
\* new column computed so far (indices 0..Len(cur)-1 of the first string)
RECURSIVE levColumn(_, _, _, _)
levColumn(prev, c, a, cur) ==
    IF Len(cur) = Len(a) + 1 THEN cur
    ELSE LET y == Len(cur)
             cost == IF a[y] # c THEN 1 ELSE 0
             del == prev[y + 1] + 1
             ins == cur[y] + 1
             sub == prev[y] + cost
             least == IF del <= ins /\ del <= sub THEN del
                      ELSE IF ins <= sub THEN ins ELSE sub
         IN  levColumn(prev, c, a, Append(cur, least))

RECURSIVE levColumns(_, _, _, _)
levColumns(a, b, x, column) ==
    IF x > Len(b) THEN column
    ELSE levColumns(a, b, x + 1, levColumn(column, b[x], a, <<x>>))

LevenshteinDistance(a, b) ==
    levColumns(a, b, 1, [y \in 1..(Len(a) + 1) |-> y - 1])[Len(a) + 1]

\* unicode.IsSpace on ASCII: tab, newline, vertical tab, form feed, carriage
\* return, space
isSpace(c) == c \in 9..13 \/ c = 32

\* strings.Fields: the maximal runs of non-space bytes, in order
Fields(text) ==
    LET starts == {i \in 1..Len(text) :
                      ~isSpace(text[i]) /\ (i = 1 \/ isSpace(text[i - 1]))}
        endOf(s) == CHOOSE e \in s..Len(text) :
                      /\ \A j \in s..e : ~isSpace(text[j])
                      /\ (e = Len(text) \/ isSpace(text[e + 1]))
        nth(n) == CHOOSE s \in starts : Cardinality({x \in starts : x < s}) = n - 1
    IN  [n \in 1..Cardinality(starts) |-> SubSeq(text, nth(n), endOf(nth(n)))]

\* "Too short ... for meaningful fuzzy search": the early return of
\* performFuzzySearch
fuzzyTooShortOnlyEmpty(queryLower) == Len(queryLower) <= 0
fuzzyTooShort(queryLower) == Len(queryLower) <= 3

\* the wider threshold used for every query length
maxDistanceAlwaysTwo(queryLower) == 2

\* maxDistance of performFuzzySearch
maxDistance(queryLower) == IF Len(queryLower) > 5 THEN 2 ELSE 1

\* bestDistance of one verse: the least distance between the query and a word
\* of the text or the book name, starting from len(queryLower) + len(textLower)
bestDistance(scripture, queryLower) ==
    LET textLower == ToLower(scripture.Text)
        bookLower == ToLower(scripture.Book)
        words == Fields(textLower)
        ds == {LevenshteinDistance(queryLower, words[i]) : i \in 1..Len(words)}
                \cup {LevenshteinDistance(queryLower, bookLower)}
                \cup {Len(queryLower) + Len(textLower)}
    IN  CHOOSE d \in ds : \A e \in ds : d <= e

\* the candidate loop of performFuzzySearch over the verses in scan order:
\* a verse is appended as [scripture, score] when 0 < bestDistance <= maxDistance
RECURSIVE collectCandidates(_, _, _)
collectCandidates(candidates, scan, queryLower) ==
    IF scan = <<>> THEN candidates
    ELSE LET d == bestDistance(scan[1], queryLower) IN
         IF d > 0 /\ d <= maxDistance(queryLower)
         THEN collectCandidates(Append(candidates, [scripture |-> scan[1], score |-> d]),
                                Tail(scan), queryLower)
         ELSE collectCandidates(candidates, Tail(scan), queryLower)

fuzzyCandidates(queryLower, iter) == collectCandidates(<<>>, scanOrder(iter), queryLower)

\* the inner loop of the sort: candidates[i] is exchanged with every later
\* candidates[j] of a strictly smaller score, j ascending
RECURSIVE sortInner(_, _, _)
sortInner(c, i, j) ==
    IF j > Len(c) THEN c
    ELSE IF c[i].score > c[j].score
         THEN sortInner([c EXCEPT ![i] = c[j], ![j] = c[i]], i, j + 1)
         ELSE sortInner(c, i, j + 1)

\* the outer loop of the sort
RECURSIVE sortCandidates(_, _)
sortCandidates(c, i) ==
    IF i >= Len(c) THEN c ELSE sortCandidates(sortInner(c, i, i + 1), i + 1)

\* performFuzzySearch
performFuzzySearch(query, limit, iter) ==
    LET queryLower == ToLower(query) IN
    IF fuzzyTooShort(queryLower) THEN <<>>
    ELSE LET sorted == sortCandidates(fuzzyCandidates(queryLower, iter), 1)
             n == IF limit <= 0 THEN 0
                  ELSE IF limit < Len(sorted) THEN limit ELSE Len(sorted)
         IN  [i \in 1..n |-> sorted[i].scripture]

\* "Add fuzzy results, avoiding duplicates": a fuzzy result is appended unless
\* its Reference is already among the results; the loop ends once
\* len(results) >= limit
RECURSIVE addFuzzy(_, _, _, _)
addFuzzy(results, fuzzyResults, i, limit) ==
    IF i > Len(fuzzyResults) THEN results
    ELSE IF \E k \in 1..Len(results) : results[k].Reference = fuzzyResults[i].Reference
         THEN addFuzzy(results, fuzzyResults, i + 1, limit)
         ELSE IF Len(results) + 1 >= limit THEN Append(results, fuzzyResults[i])
              ELSE addFuzzy(Append(results, fuzzyResults[i]), fuzzyResults, i + 1, limit)

\* performSearch of that revision.  exactResults[:limit] panics (slice bounds
\* out of range) when limit is negative; the outcome is the record
\* [panic, results]
legacyPerformSearch(query, limit, iterExact, iterFuzzy) ==
    LET queryLower == ToLower(query)
        exactResults == performExactSearch(queryLower, limit, iterExact)
    IN  IF Len(exactResults) >= limit
        THEN IF limit < 0 THEN [panic |-> TRUE, results |-> <<>>]
             ELSE [panic |-> FALSE, results |-> SubSeq(exactResults, 1, limit)]
        ELSE [panic |-> FALSE,
              results |-> addFuzzy(exactResults,
                                   performFuzzySearch(query, limit - Len(exactResults),
                                                      iterFuzzy),
                                   1, limit)]

(***************************************************************************)
(* The reference parsers: parseReference and parseChapterReference.        *)
(***************************************************************************)
\* \d of the regular expressions
isDigit(c) == c \in 48..57

\* \s of the regular expressions: tab, newline, form feed, carriage return,
\* space
isReSpace(c) == c \in {9, 10, 12, 13, 32}

\* the . of the regular expressions: any byte but newline
isDot(c) == c # 10

\* strings.TrimSpace: leading and trailing white space removed
TrimSpace(s) ==
    LET kept == {i \in 1..Len(s) : ~isSpace(s[i])} IN
    IF kept = {} THEN <<>>
    ELSE SubSeq(s, CHOOSE i \in kept : \A j \in kept : i <= j,
                   CHOOSE i \in kept : \A j \in kept : j <= i)

\* \s+ and \d+ are greedy: the index where the longest run of white space
\* (of digits) starting at index i ends, i - 1 when there is none
RECURSIVE spaceEnd(_, _)
spaceEnd(s, i) == IF i <= Len(s) /\ isReSpace(s[i]) THEN spaceEnd(s, i + 1) ELSE i - 1

RECURSIVE digitEnd(_, _)
digitEnd(s, i) == IF i <= Len(s) /\ isDigit(s[i]) THEN digitEnd(s, i + 1) ELSE i - 1

\* the part (?:-(\d+))?$ matched against s from index v + 1 on, after
\* chapter and verse were matched: the captures or <<>> for no match
verseEnd(s, v, chapter, verse) ==
    IF v = Len(s) THEN <<chapter, verse, <<>>>>
    ELSE IF s[v + 1] # 45 THEN <<>>
    ELSE LET e == digitEnd(s, v + 2) IN
         IF e < v + 2 \/ e # Len(s) THEN <<>>
         ELSE <<chapter, verse, SubSeq(s, v + 2, e)>>

\* the part (\d+):(\d+)(?:-(\d+))?$ matched against s from index w + 1 on
verseNumbers(s, w) ==
    LET c == digitEnd(s, w + 1) IN
    IF c < w + 1 \/ c + 1 > Len(s) THEN <<>>
    ELSE IF s[c + 1] # 58 THEN <<>>
    ELSE LET v == digitEnd(s, c + 2) IN
         IF v < c + 2 THEN <<>>
         ELSE verseEnd(s, v, SubSeq(s, w + 1, c), SubSeq(s, c + 2, v))

\* the part \s+(\d+):(\d+)(?:-(\d+))?$ of the verse expression matched
\* against s from index k + 1 on: <<chapter, verse, end>> (end empty when the
\* optional group took nothing), or <<>> when it does not match.  Every
\* repetition is followed by a byte outside its class, so no shorter
\* repetition can match where the longest does not.
verseTail(s, k) ==
    LET w == spaceEnd(s, k + 1) IN
    IF w < k + 1 THEN <<>> ELSE verseNumbers(s, w)

\* FindStringSubmatch of ^(.+?)\s+(\d+):(\d+)(?:-(\d+))?$ : the lazy (.+?)
\* first takes one byte and one more each time the rest does not match, as
\* long as the byte is no newline; <<>> is no match
RECURSIVE verseSubmatchFrom(_, _)
verseSubmatchFrom(s, k) ==
    IF k > Len(s) THEN <<>>
    ELSE IF ~isDot(s[k]) THEN <<>>
    ELSE LET t == verseTail(s, k) IN
         IF t # <<>> THEN <<s, SubSeq(s, 1, k), t[1], t[2], t[3]>>
         ELSE verseSubmatchFrom(s, k + 1)

verseSubmatch(s) == verseSubmatchFrom(s, 1)

\* the part \s+(\d+)$ of the chapter expression matched against s from
\* index k + 1 on: <<chapter>> or <<>>
chapterTailUnanchored(s, k) ==
    LET w == spaceEnd(s, k + 1) IN
    IF w < k + 1 THEN <<>>
    ELSE LET c == digitEnd(s, w + 1) IN
         IF c < w + 1 THEN <<>> ELSE <<SubSeq(s, w + 1, c)>>
chapterTail(s, k) ==
    LET w == spaceEnd(s, k + 1) IN
    IF w < k + 1 THEN <<>>
    ELSE LET c == digitEnd(s, w + 1) IN
         IF c < w + 1 \/ c # Len(s) THEN <<>> ELSE <<SubSeq(s, w + 1, c)>>

\* FindStringSubmatch of ^(.+?)\s+(\d+)$
RECURSIVE chapterSubmatchFrom(_, _)
chapterSubmatchFrom(s, k) ==
    IF k > Len(s) THEN <<>>
    ELSE IF ~isDot(s[k]) THEN <<>>
    ELSE LET t == chapterTail(s, k) IN
         IF t # <<>> THEN <<s, SubSeq(s, 1, k), t[1]>>
         ELSE chapterSubmatchFrom(s, k + 1)

chapterSubmatch(s) == chapterSubmatchFrom(s, 1)

\* strconv.Atoi on a run of digits: its decimal value
RECURSIVE Atoi(_)
Atoi(digits) ==
    IF digits = <<>> THEN 0
    ELSE 10 * Atoi(SubSeq(digits, 1, Len(digits) - 1)) + (digits[Len(digits)] - 48)

\* strconv.Atoi fails with a range error when the value does not fit the
\* 64-bit int: never for a run of at most 18 digits
atoiFails(digits) == Len(digits) > 18

\* the returned pair of a ScriptureReference pointer and an error
NilReference == [nil |-> TRUE]
parseError(message) == [ref |-> NilReference, err |-> message]
parsedReference(book, chapter, verse, endVerse) ==
    [ref |-> [Book |-> book, Chapter |-> chapter, Verse |-> verse,
              EndVerse |-> endVerse],
     err |-> "nil"]

parseReferenceZeroEnd(reference) ==
    LET matches == verseSubmatch(TrimSpace(reference)) IN
    IF Len(matches) < 4 THEN parseError("invalid reference format")
    ELSE parsedReference(TrimSpace(matches[2]), Atoi(matches[3]), Atoi(matches[4]),
                         IF matches[5] # <<>> THEN Atoi(matches[5]) ELSE 0)
parseReference(reference) ==
    LET matches == verseSubmatch(TrimSpace(reference)) IN
    IF Len(matches) < 4 THEN parseError("invalid reference format")
    ELSE IF atoiFails(matches[3]) THEN parseError("invalid chapter number")
    ELSE IF atoiFails(matches[4]) THEN parseError("invalid verse number")
    ELSE IF matches[5] # <<>> /\ atoiFails(matches[5])
         THEN parseError("invalid end verse number")
    ELSE parsedReference(TrimSpace(matches[2]), Atoi(matches[3]), Atoi(matches[4]),
                         IF matches[5] # <<>> THEN Atoi(matches[5])
                         ELSE Atoi(matches[4]))

\* Verse and EndVerse keep the zero value
parseChapterReference(reference) ==
    LET matches == chapterSubmatch(TrimSpace(reference)) IN
    IF Len(matches) < 3 THEN parseError("invalid chapter reference format")
    ELSE IF atoiFails(matches[3]) THEN parseError("invalid chapter number")
    ELSE parsedReference(TrimSpace(matches[2]), Atoi(matches[3]), 0, 0)

(***************************************************************************)
(* The entry points: argument decoding and the returned pair of a          *)
(* CallToolResult and an error.                                            *)
(***************************************************************************)
\* a value of the argument map (map[string]interface{}); Missing stands for
\* a key that is not in the map
Missing == [kind |-> "missing", val |-> <<>>]
StringValue(s) == [kind |-> "string", val |-> s]
NumberValue(n) == [kind |-> "float64", val |-> n]
BoolValue(b) == [kind |-> "bool", val |-> b]
ArrayValue(a) == [kind |-> "array", val |-> a]

\* fmt.Sprintf: the format string and its operands, and the lines appended
\* to the response one per element
Sprintf(format, operands) == <<format, operands>>
Text(head, lines) == [head |-> head, lines |-> lines]

\* mcp.NewToolResultText / mcp.NewToolResultError, returned with a nil error
NewToolResultText(text) ==
    [panic |-> FALSE, result |-> [IsError |-> FALSE, Content |-> text], err |-> "nil"]
NewToolResultError(text) ==
    [panic |-> FALSE, result |-> [IsError |-> TRUE, Content |-> text], err |-> "nil"]

\* `query, ok := arguments["query"].(string); if !ok || query == ""`
queryRejectedOnlyIfNoString(arguments) == arguments.query.kind # "string"
queryRejected(arguments) ==
    arguments.query.kind # "string" \/ arguments.query.val = <<>>

\* an optional string argument: "" unless the key holds a string
optionalString(v) == IF v.kind = "string" THEN v.val ELSE <<>>

\* limit: 10 unless the key holds a number, then int(limitFloat)
limitArgument(v) == IF v.kind = "float64" THEN v.val ELSE 10

\* " in book '%s'" / " in collection '%s'" / ""
filterInfo(book, collection) ==
    IF book # <<>> THEN Sprintf(" in book '%s'", <<book>>)
    ELSE IF collection # <<>> THEN Sprintf(" in collection '%s'", <<collection>>)
    ELSE <<>>

\* the response of SearchScriptures for an empty result
noResultsAsError(query, book, collection) ==
    NewToolResultError(Text(Sprintf(
        "No scriptures found matching '%s'%s. Try different keywords or check spelling.",
        <<query, filterInfo(book, collection)>>), <<>>))
noResults(query, book, collection) ==
    NewToolResultText(Text(Sprintf(
        "No scriptures found matching '%s'%s. Try different keywords or check spelling.",
        <<query, filterInfo(book, collection)>>), <<>>))

\* SearchScriptures
SearchScripturesResult(arguments, iterS, iterC) ==
    IF queryRejected(arguments)
    THEN NewToolResultError(Text("search query cannot be empty", <<>>))
    ELSE LET query == arguments.query.val
             limit == limitArgument(arguments.limit)
             book == optionalString(arguments.book)
             collection == optionalString(arguments.collection)
             results == performSearchWithFilters(query, limit, book, collection,
                                                 iterS, iterC)
         IN  IF Len(results) = 0 THEN noResults(query, book, collection)
             ELSE NewToolResultText(Text(
                    Sprintf("Scripture Search Results for '%s'%s:",
                            <<query, filterInfo(book, collection)>>),
                    [i \in 1..Len(results) |->
                        Sprintf("%d. %s %d:%d - %s",
                                <<i, results[i].Book, results[i].Chapter,
                                  results[i].Verse, results[i].Text>>)]))

\* GetScripture
GetScriptureResult(arguments) ==
    IF queryRejected(arguments)
    THEN NewToolResultError(Text("scripture reference cannot be empty", <<>>))
    ELSE LET query == arguments.query.val
             parsed == parseReference(query)
         IN  IF parsed.err # "nil"
             THEN NewToolResultError(Text(Sprintf("invalid scripture reference: %v",
                                                   <<parsed.err>>), <<>>))
             ELSE LET found == getScripturesByReference(parsed.ref) IN
                  IF Len(found) = 0
                  THEN NewToolResultText(Text(Sprintf(
                          "Scripture reference '%s' not found.", <<query>>), <<>>))
                  ELSE NewToolResultText(Text(
                          Sprintf("Scripture Reference: %s", <<query>>),
                          [i \in 1..Len(found) |->
                              Sprintf("%s %d:%d - %s",
                                      <<found[i].Book, found[i].Chapter,
                                        found[i].Verse, found[i].Text>>)]))

\* GetChapter
GetChapterResult(arguments) ==
    IF queryRejected(arguments)
    THEN NewToolResultError(Text("chapter reference cannot be empty", <<>>))
    ELSE LET query == arguments.query.val
             parsed == parseChapterReference(query)
         IN  IF parsed.err # "nil"
             THEN NewToolResultError(Text(Sprintf("invalid chapter reference: %v",
                                                   <<parsed.err>>), <<>>))
             ELSE LET found == getChapter(parsed.ref.Book, parsed.ref.Chapter) IN
                  IF Len(found) = 0
                  THEN NewToolResultText(Text(Sprintf("Chapter '%s' not found.",
                                                      <<query>>), <<>>))
                  ELSE NewToolResultText(Text(
                          Sprintf("%s Chapter %d",
                                  <<parsed.ref.Book, parsed.ref.Chapter>>),
                          [i \in 1..Len(found) |->
                              Sprintf("%d. %s", <<found[i].Verse, found[i].Text>>)]))

\* the first key of s.collections, in iteration order, that equals the
\* lowercased name once lowercased: <<key>>, or <<>> when there is none
RECURSIVE findCollection(_, _)
findCollection(collectionLower, iterC) ==
    IF iterC = <<>> THEN <<>>
    ELSE IF ToLower(iterC[1]) = collectionLower THEN <<iterC[1]>>
         ELSE findCollection(collectionLower, Tail(iterC))

\* whether sort.Strings(searchOrder) runs: in the branch without filters only
sortsSearchOrderAlways(book, collection) == TRUE
sortsSearchOrder(book, collection) == book = <<>> /\ collection = <<>>

\* Service.collections after performSearchWithFilters.  With a collection
\* filter `searchOrder = books` makes searchOrder the stored book list itself
\* (the assignment copies the slice header, not the elements), so a sort of
\* searchOrder would reorder the list held by the index.
collectionsAfterSearch(book, collection, iterC) ==
    LET shared == IF book = <<>> /\ collection # <<>>
                  THEN findCollection(ToLower(collection), iterC) ELSE <<>>
    IN  IF shared # <<>> /\ sortsSearchOrder(book, collection)
        THEN [collections EXCEPT ![shared[1]] = SortStrings(@)]
        ELSE collections

\* Service.collections after SearchScriptures
SearchScripturesCollections(arguments, iterC) ==
    IF queryRejected(arguments) THEN collections
    ELSE collectionsAfterSearch(optionalString(arguments.book),
                                optionalString(arguments.collection), iterC)

\* ListBooks; iterC is the order in which the map of collections is ranged over
ListBooksResult(arguments, iterC) ==
    LET collection == optionalString(arguments.collection)
        hit == findCollection(ToLower(collection), iterC)
        collectionNames == SortStrings(iterC)
    IN  IF collection # <<>>
        THEN IF hit # <<>>
             THEN NewToolResultText(Text(
                     Sprintf("Books in %s:", <<hit[1]>>),
                     [i \in 1..Len(collections[hit[1]]) |->
                         Sprintf("%d. %s", <<i, collections[hit[1]][i]>>)]))
             ELSE NewToolResultText(Text(Sprintf("Collection '%s' not found.",
                                                 <<collection>>), <<>>))
        ELSE NewToolResultText(Text(
                "Scripture Collections and Books:",
                [i \in 1..Len(collectionNames) |->
                    Sprintf("## %s (%d books) - %s",
                            <<collectionNames[i], Len(collections[collectionNames[i]]),
                              collections[collectionNames[i]]>>)]))

\* ListCollections
ListCollectionsResult(iterC) ==
    LET collectionNames == SortStrings(iterC) IN
    NewToolResultText(Text(
        "Available Scripture Collections:",
        [i \in 1..Len(collectionNames) |->
            Sprintf("%d. %s (%d books)",
                    <<i, collectionNames[i], Len(collections[collectionNames[i]])>>)]))

\* "Convert interface{} slice to string slice": the string elements, in order
termStringsOf(terms) ==
    LET idx == {i \in 1..Len(terms) : terms[i].kind = "string"}
        nth(n) == CHOOSE i \in idx : Cardinality({j \in idx : j < i}) = n - 1
    IN  [n \in 1..Cardinality(idx) |-> terms[nth(n)].val]

\* ignore_common_words: true unless the key holds a bool
ignoreCommonArgument(v) == IF v.kind = "bool" THEN v.val ELSE TRUE

\* GetTermCounts
GetTermCountsResult(arguments, iterS, iterC) ==
    IF arguments.terms.kind # "array" \/ Len(arguments.terms.val) = 0
    THEN NewToolResultError(Text("terms array cannot be empty", <<>>))
    ELSE LET termStrings == termStringsOf(arguments.terms.val) IN
         IF Len(termStrings) = 0
         THEN NewToolResultError(Text("no valid terms provided", <<>>))
         ELSE LET book == optionalString(arguments.book)
                  collection == optionalString(arguments.collection)
                  ignoreCommon == ignoreCommonArgument(arguments.ignore_common_words)
                  termCounts == countTerms(termStrings, book, collection, ignoreCommon,
                                           iterS, iterC)
              IN  NewToolResultText(Text(
                     Sprintf("Term Counts%s:", <<filterInfo(book, collection)>>),
                     [i \in 1..Len(termStrings) |->
                         Sprintf("'%s': %d occurrences",
                                 <<termStrings[i], termCounts[ToLower(termStrings[i])]>>)]))

(***************************************************************************)
(* Inputs tried by the queries.                                            *)
(***************************************************************************)
Queries == {q_God, q_the, q_LORD, q_nephi}
\* argument maps of the entry points
QueryArguments == {Missing, NumberValue(7), StringValue(<<>>), StringValue(q_God),
                   StringValue(q_nephi)}
LimitArguments == {Missing, StringValue(s_five), NumberValue(-1), NumberValue(0),
                   NumberValue(1)}
BookArguments == {Missing, NumberValue(7), StringValue(s_John), StringValue(s_Ruth)}
CollectionArguments == {Missing, StringValue(s_newTestamentLc), StringValue(s_Apocrypha)}
ScriptureArguments ==
    {Missing, NumberValue(7), StringValue(<<>>), StringValue(r_John_1_1),
     StringValue(ref_1Ne_1_1_2), StringValue(ref_Ruth_1_1), StringValue(ref_John_9_9),
     StringValue(ref_John_1)}
ChapterArguments ==
    {Missing, NumberValue(7), StringValue(<<>>), StringValue(ref_John_1),
     StringValue(ref_1Ne_2), StringValue(ref_Ruth_1), StringValue(ref_John_7),
     StringValue(r_John_1_1)}
TermsArguments ==
    {Missing, StringValue(w_the), ArrayValue(<<>>), ArrayValue(<<NumberValue(7)>>),
     ArrayValue(<<StringValue(w_the)>>),
     ArrayValue(<<StringValue(w_Lord), NumberValue(7), StringValue(w_god)>>)}
IgnoreCommonArguments == {Missing, StringValue(w_the), BoolValue(FALSE)}
LegacyQueries == {q_God, q_Gad, q_Gods, q_LordSp, q_Lordss, q_worl}
\* bytes of the reference strings typed byte by byte: A 1 2 space : -
RefAlphabet == {65, 49, 50, 32, 58, 45}
\* the parts of the reference strings put together as
\* <lead><book> <chapter>:<verse>[-<end>]<trail>
RefPadding == {<<>>, <<32>>, <<9, 32>>, <<10>>}
RefBookNames == {s_John, s_1Nephi, s_A12}
RefNumbers == {n_3, n_16, n_07}
NoForm ==
    [composed |-> FALSE, lead |-> <<>>, book |-> <<>>, chapter |-> <<>>,
     verse |-> <<>>, end |-> <<>>, trail |-> <<>>]
LegacyFiles == {<<f_bom, DocBoM>>, <<f_nt, DocNT>>, <<f_pgp, DocMalformed>>}
Limits == {-1} \cup (0..MaxLimit)
BookFilters == {<<>>, s_1Nephi, s_John, s_john}
CollectionFilters == {<<>>, s_BookOfMormon, s_newTestamentLc, s_Apocrypha}
RefBooks == {s_1Nephi, s_John, s_Ruth}
RefChapters == 1..2
RefVerses == 1..3
TermLists ==
    { <<w_the>>, <<w_Lord>>, <<w_faith>>, <<w_the, w_The>>, <<w_lord, w_god>>,
      <<w_lords, w_the>>, <<w_Lord, w_lord>> }

(***************************************************************************)
(* State machine.                                                          *)
(***************************************************************************)
\* NewService: both maps made empty, loadScriptures about to run
Init ==
    /\ scriptures = <<>>
    /\ collections = <<>>
    /\ pc = "loading"
    /\ nLoaded = 0
    /\ op = "none"
    /\ args = <<>>
    /\ result = <<>>
    /\ prevResult = <<>>

\* the load started with `go service.loadScriptures()`: its calls of
\* parseAndStore go on after NewService has returned
ParseAndStoreAsync ==
    /\ nLoaded < MaxFiles
    /\ \E f \in Files :
        /\ scriptures' = parseAndStoreScriptures(scriptures, f[2], f[1])
        /\ collections' = parseAndStoreCollections(collections, f[2], f[1])
    /\ nLoaded' = nLoaded + 1
    /\ UNCHANGED <<pc, op, args, result, prevResult>>

\* one call of parseAndStore(data, label) made by the loader
ParseAndStore ==
    /\ pc = "loading"
    /\ nLoaded < MaxFiles
    /\ \E f \in Files :
        /\ scriptures' = parseAndStoreScriptures(scriptures, f[2], f[1])
        /\ collections' = parseAndStoreCollections(collections, f[2], f[1])
    /\ nLoaded' = nLoaded + 1
    /\ UNCHANGED <<pc, op, args, result, prevResult>>

\* loadScriptures is over and NewService returns the service
NewServiceReturns ==
    /\ pc = "loading"
    /\ pc' = "serving"
    /\ UNCHANGED <<scriptures, collections, nLoaded, op, args, result, prevResult>>

\* one call of performSearchWithFilters, after any earlier result was handed back
Search ==
    /\ pc = "serving"
    /\ op = "none"
    /\ \E query \in Queries, limit \in Limits, book \in BookFilters,
          collection \in CollectionFilters :
        \E iterS \in (IF book = <<>> /\ collection = <<>>
                      THEN KeyOrders(DOMAIN scriptures) ELSE {<<>>}),
           iterC \in (IF book = <<>> /\ collection # <<>>
                      THEN KeyOrders(DOMAIN collections) ELSE {<<>>}) :
          /\ result' = performSearchWithFilters(query, limit, book, collection,
                                                iterS, iterC)
          /\ args' = [query |-> query, limit |-> limit, book |-> book,
                      collection |-> collection]
          /\ collections' = collectionsAfterSearch(book, collection, iterC)
    /\ op' = "search"
    /\ prevResult' = <<>>
    /\ UNCHANGED <<scriptures, pc, nLoaded>>

\* the same search invoked once more with identical arguments; the maps are
\* iterated in whatever order this second call happens to get
SearchAgain ==
    /\ pc = "serving"
    /\ op = "search"
    /\ \E iterS \in (IF args.book = <<>> /\ args.collection = <<>>
                     THEN KeyOrders(DOMAIN scriptures) ELSE {<<>>}),
          iterC \in (IF args.book = <<>> /\ args.collection # <<>>
                     THEN KeyOrders(DOMAIN collections) ELSE {<<>>}) :
         /\ result' = performSearchWithFilters(args.query, args.limit, args.book,
                                               args.collection, iterS, iterC)
         /\ collections' = collectionsAfterSearch(args.book, args.collection, iterC)
    /\ prevResult' = <<result>>
    /\ UNCHANGED <<scriptures, pc, nLoaded, op, args>>

\* the handler returns: the caller takes the result and the service is idle
Return ==
    /\ pc = "serving"
    /\ op # "none"
    /\ op' = "none"
    /\ args' = <<>>
    /\ result' = <<>>
    /\ prevResult' = <<>>
    /\ UNCHANGED <<scriptures, collections, pc, nLoaded>>

\* one call of getScripturesByReference
GetScripturesByReference ==
    /\ pc = "serving"
    /\ op = "none"
    /\ \E book \in RefBooks, chapter \in RefChapters, verse \in RefVerses,
          endVerse \in RefVerses :
        LET ref == [Book |-> book, Chapter |-> chapter, Verse |-> verse,
                    EndVerse |-> endVerse] IN
        /\ result' = getScripturesByReference(ref)
        /\ args' = ref
    /\ op' = "getScripturesByReference"
    /\ prevResult' = <<>>
    /\ UNCHANGED <<scriptures, collections, pc, nLoaded>>

\* one call of getChapter
GetChapter ==
    /\ pc = "serving"
    /\ op = "none"
    /\ \E book \in RefBooks, chapter \in RefChapters :
        /\ result' = getChapter(book, chapter)
        /\ args' = [book |-> book, chapter |-> chapter]
    /\ op' = "getChapter"
    /\ prevResult' = <<>>
    /\ UNCHANGED <<scriptures, collections, pc, nLoaded>>

\* one call of countTerms
CountTerms ==
    /\ pc = "serving"
    /\ op = "none"
    /\ \E terms \in TermLists, book \in BookFilters, collection \in CollectionFilters,
          ignoreCommon \in BOOLEAN :
        \E iterS \in (IF book = <<>> /\ collection = <<>>
                      THEN KeyOrders(DOMAIN scriptures) ELSE {<<>>}),
           iterC \in (IF book = <<>> /\ collection # <<>>
                      THEN KeyOrders(DOMAIN collections) ELSE {<<>>}) :
          /\ result' = countTerms(terms, book, collection, ignoreCommon, iterS, iterC)
          /\ args' = [terms |-> terms, book |-> book, collection |-> collection,
                      ignoreCommon |-> ignoreCommon]
    /\ op' = "countTerms"
    /\ prevResult' = <<>>
    /\ UNCHANGED <<scriptures, collections, pc, nLoaded>>

\* one call of the entry point SearchScriptures
CallSearchScriptures ==
    /\ pc = "serving"
    /\ op = "none"
    /\ \E query \in QueryArguments, limit \in LimitArguments, book \in BookArguments,
          collection \in CollectionArguments :
        LET arguments == [query |-> query, limit |-> limit, book |-> book,
                          collection |-> collection]
            b == optionalString(book)
            c == optionalString(collection)
        IN  \E iterS \in (IF ~queryRejected(arguments) /\ b = <<>> /\ c = <<>>
                          THEN KeyOrders(DOMAIN scriptures) ELSE {<<>>}),
               iterC \in (IF ~queryRejected(arguments) /\ b = <<>> /\ c # <<>>
                          THEN KeyOrders(DOMAIN collections) ELSE {<<>>}) :
              /\ result' = SearchScripturesResult(arguments, iterS, iterC)
              /\ collections' = SearchScripturesCollections(arguments, iterC)
              /\ args' = arguments
    /\ op' = "SearchScriptures"
    /\ prevResult' = <<>>
    /\ UNCHANGED <<scriptures, pc, nLoaded>>

\* one call of the entry point GetScripture
CallGetScripture ==
    /\ pc = "serving"
    /\ op = "none"
    /\ \E query \in ScriptureArguments :
        /\ result' = GetScriptureResult([query |-> query])
        /\ args' = [query |-> query]
    /\ op' = "GetScripture"
    /\ prevResult' = <<>>
    /\ UNCHANGED <<scriptures, collections, pc, nLoaded>>

\* one call of the entry point GetChapter
CallGetChapter ==
    /\ pc = "serving"
    /\ op = "none"
    /\ \E query \in ChapterArguments :
        /\ result' = GetChapterResult([query |-> query])
        /\ args' = [query |-> query]
    /\ op' = "GetChapter"
    /\ prevResult' = <<>>
    /\ UNCHANGED <<scriptures, collections, pc, nLoaded>>

\* one call of the entry point ListBooks
CallListBooks ==
    /\ pc = "serving"
    /\ op = "none"
    /\ \E collection \in CollectionArguments \cup {NumberValue(7)},
          iterC \in KeyOrders(DOMAIN collections) :
        /\ result' = ListBooksResult([collection |-> collection], iterC)
        /\ args' = [collection |-> collection]
    /\ op' = "ListBooks"
    /\ prevResult' = <<>>
    /\ UNCHANGED <<scriptures, collections, pc, nLoaded>>

\* one call of the entry point ListCollections
CallListCollections ==
    /\ pc = "serving"
    /\ op = "none"
    /\ \E iterC \in KeyOrders(DOMAIN collections) :
        result' = ListCollectionsResult(iterC)
    /\ args' = <<>>
    /\ op' = "ListCollections"
    /\ prevResult' = <<>>
    /\ UNCHANGED <<scriptures, collections, pc, nLoaded>>

\* one call of the entry point GetTermCounts
CallGetTermCounts ==
    /\ pc = "serving"
    /\ op = "none"
    /\ \E terms \in TermsArguments, book \in {Missing, StringValue(s_John)},
          collection \in {Missing, StringValue(s_newTestamentLc)},
          ignore \in IgnoreCommonArguments :
        LET arguments == [terms |-> terms, book |-> book, collection |-> collection,
                          ignore_common_words |-> ignore]
            b == optionalString(book)
            c == optionalString(collection)
        IN  \E iterS \in (IF b = <<>> /\ c = <<>>
                          THEN KeyOrders(DOMAIN scriptures) ELSE {<<>>}),
               iterC \in (IF b = <<>> /\ c # <<>>
                          THEN KeyOrders(DOMAIN collections) ELSE {<<>>}) :
              /\ result' = GetTermCountsResult(arguments, iterS, iterC)
              /\ args' = arguments
    /\ op' = "GetTermCounts"
    /\ prevResult' = <<>>
    /\ UNCHANGED <<scriptures, collections, pc, nLoaded>>

Next ==
    \/ ParseAndStore
    \/ NewServiceReturns
    \/ Search
    \/ SearchAgain
    \/ GetScripturesByReference
    \/ GetChapter
    \/ CountTerms
    \/ CallSearchScriptures
    \/ CallGetScripture
    \/ CallGetChapter
    \/ CallListBooks
    \/ CallListCollections
    \/ CallGetTermCounts
    \/ Return

Spec == Init /\ [][Next]_vars

(***************************************************************************)
(* State machine of the earlier revision with the fuzzy pass: the same     *)
(* variables; collections stays empty (that revision has no Collection     *)
(* Index).                                                                 *)
(***************************************************************************)
\* one call of that revision's parseAndStore(data, label) made by the loader
LegacyParseAndStore ==
    /\ pc = "loading"
    /\ nLoaded < MaxFiles
    /\ \E f \in LegacyFiles : scriptures' = legacyParseAndStore(scriptures, f[2], f[1])
    /\ nLoaded' = nLoaded + 1
    /\ UNCHANGED <<collections, pc, op, args, result, prevResult>>

\* one call of performSearch of the revision with the fuzzy pass: the exact
\* pass and the fuzzy pass each range over the map in an order of their own
LegacySearch ==
    /\ pc = "serving"
    /\ op = "none"
    /\ \E query \in LegacyQueries, limit \in Limits :
        \E iterExact \in KeyOrders(DOMAIN scriptures) :
          \E iterFuzzy \in (IF /\ Len(performExactSearch(ToLower(query), limit,
                                                         iterExact)) < limit
                               /\ ~fuzzyTooShort(ToLower(query))
                            THEN KeyOrders(DOMAIN scriptures) ELSE {<<>>}) :
            /\ result' = legacyPerformSearch(query, limit, iterExact, iterFuzzy)
            /\ args' = [query |-> query, limit |-> limit]
    /\ op' = "legacySearch"
    /\ prevResult' = <<>>
    /\ UNCHANGED <<scriptures, collections, pc, nLoaded>>

\* the same call once more with identical arguments
LegacySearchAgain ==
    /\ pc = "serving"
    /\ op = "legacySearch"
    /\ \E iterExact \in KeyOrders(DOMAIN scriptures) :
        \E iterFuzzy \in (IF /\ Len(performExactSearch(ToLower(args.query), args.limit,
                                                       iterExact)) < args.limit
                             /\ ~fuzzyTooShort(ToLower(args.query))
                          THEN KeyOrders(DOMAIN scriptures) ELSE {<<>>}) :
          result' = legacyPerformSearch(args.query, args.limit, iterExact, iterFuzzy)
    /\ prevResult' = <<result>>
    /\ UNCHANGED <<scriptures, collections, pc, nLoaded, op, args>>

\* SearchScriptures of that revision: any number given as limit goes to
\* performSearch as it is, and a panic of performSearch is not recovered
LegacySearchScripturesResult(arguments, iterExact, iterFuzzy) ==
    IF queryRejected(arguments)
    THEN NewToolResultError(Text("search query cannot be empty", <<>>))
    ELSE LET query == arguments.query.val
             limit == limitArgument(arguments.limit)
             found == legacyPerformSearch(query, limit, iterExact, iterFuzzy)
         IN  IF found.panic THEN [panic |-> TRUE]
             ELSE IF Len(found.results) = 0
             THEN NewToolResultText(Text(Sprintf(
                     "No scriptures found matching '%s'. Try different keywords or check spelling.",
                     <<query>>), <<>>))
             ELSE NewToolResultText(Text(
                     Sprintf("Scripture Search Results for '%s':", <<query>>),
                     [i \in 1..Len(found.results) |->
                         Sprintf("%d. %s %d:%d - %s",
                                 <<i, found.results[i].Book, found.results[i].Chapter,
                                   found.results[i].Verse, found.results[i].Text>>)]))

\* one call of the entry point SearchScriptures of that revision
CallLegacySearchScriptures ==
    /\ pc = "serving"
    /\ op = "none"
    /\ \E query \in QueryArguments, limit \in LimitArguments :
        LET arguments == [query |-> query, limit |-> limit]
            valid == ~queryRejected(arguments)
            n == limitArgument(limit)
        IN  \E iterExact \in (IF valid THEN KeyOrders(DOMAIN scriptures) ELSE {<<>>}) :
              \E iterFuzzy \in
                    (IF /\ valid
                        /\ Len(performExactSearch(ToLower(query.val), n, iterExact)) < n
                        /\ ~fuzzyTooShort(ToLower(query.val))
                     THEN KeyOrders(DOMAIN scriptures) ELSE {<<>>}) :
                /\ result' = LegacySearchScripturesResult(arguments, iterExact, iterFuzzy)
                /\ args' = arguments
    /\ op' = "SearchScriptures"
    /\ prevResult' = <<>>
    /\ UNCHANGED <<scriptures, collections, pc, nLoaded>>

\* one call of performFuzzySearch(query, limit); args keeps the order in which
\* this call ranges over s.scriptures
LegacyFuzzySearch ==
    /\ pc = "serving"
    /\ op = "none"
    /\ \E query \in LegacyQueries, limit \in Limits :
        \E iter \in (IF fuzzyTooShort(ToLower(query)) THEN {<<>>}
                     ELSE KeyOrders(DOMAIN scriptures)) :
          /\ result' = performFuzzySearch(query, limit, iter)
          /\ args' = [query |-> query, limit |-> limit, iter |-> iter]
    /\ op' = "performFuzzySearch"
    /\ prevResult' = <<>>
    /\ UNCHANGED <<scriptures, collections, pc, nLoaded>>

LegacyNext ==
    \/ LegacyParseAndStore
    \/ NewServiceReturns
    \/ LegacySearch
    \/ LegacySearchAgain
    \/ CallLegacySearchScriptures
    \/ LegacyFuzzySearch
    \/ Return

LegacySpec == Init /\ [][LegacyNext]_vars

(***************************************************************************)
(* The parsers applied to reference strings: parseReference and            *)
(* parseChapterReference read no field of the service, so the maps stay    *)
(* empty.  args holds the reference string and, for a string put together  *)
(* from parts, the parts.                                                  *)
(***************************************************************************)
ParserInit ==
    /\ scriptures = <<>>
    /\ collections = <<>>
    /\ pc = "parsing"
    /\ nLoaded = 0
    /\ op = "none"
    /\ args = [reference |-> <<>>, form |-> NoForm]
    /\ result = <<>>
    /\ prevResult = <<>>

\* the caller's string grows by one byte
TypeByte ==
    /\ pc = "parsing"
    /\ op = "none"
    /\ ~args.form.composed
    /\ Len(args.reference) < MaxRefLen
    /\ \E c \in RefAlphabet : args' = [args EXCEPT !.reference = Append(@, c)]
    /\ UNCHANGED <<scriptures, collections, pc, nLoaded, op, result, prevResult>>

\* the caller's string is a reference put together from a book name,
\* numbers and surrounding white space
ComposeReference ==
    /\ pc = "parsing"
    /\ op = "none"
    /\ args.reference = <<>>
    /\ \E lead \in RefPadding, book \in RefBookNames, chapter \in RefNumbers,
          verse \in RefNumbers, end \in RefNumbers \cup {<<>>}, trail \in RefPadding :
        args' = [reference |->
                    lead \o book \o <<32>> \o chapter \o <<58>> \o verse
                    \o (IF end = <<>> THEN <<>> ELSE <<45>> \o end) \o trail,
                 form |-> [composed |-> TRUE, lead |-> lead, book |-> book,
                           chapter |-> chapter, verse |-> verse, end |-> end,
                           trail |-> trail]]
    /\ UNCHANGED <<scriptures, collections, pc, nLoaded, op, result, prevResult>>

\* one call of parseReference
ParseReference ==
    /\ pc = "parsing"
    /\ op = "none"
    /\ op' = "parseReference"
    /\ result' = parseReference(args.reference)
    /\ UNCHANGED <<scriptures, collections, pc, nLoaded, args, prevResult>>

\* one call of parseChapterReference
ParseChapterReference ==
    /\ pc = "parsing"
    /\ op = "none"
    /\ op' = "parseChapterReference"
    /\ result' = parseChapterReference(args.reference)
    /\ UNCHANGED <<scriptures, collections, pc, nLoaded, args, prevResult>>

ParserNext ==
    \/ TypeByte
    \/ ComposeReference
    \/ ParseReference
    \/ ParseChapterReference

ParserSpec == ParserInit /\ [][ParserNext]_vars

(***************************************************************************)
(* The loaders: loadFromZipBytes walks the entries of an archive,          *)
(* loadFromDir the five expected file names of a directory.  args holds    *)
(* what is being loaded, nLoaded the number of loop iterations done.       *)
(***************************************************************************)
\* strings.HasSuffix
HasSuffix(s, suffix) ==
    Len(s) >= Len(suffix) /\ SubSeq(s, Len(s) - Len(suffix) + 1, Len(s)) = suffix

\* scriptureJSONFilenames
scriptureJSONFilenames == <<f_bom, f_dc, f_pgp, f_ot, f_nt>>

\* an entry of a zip archive; Readable is false when f.Open or io.ReadAll fails
ZipEntry(name, isDir, readable, data) ==
    [Name |-> name, IsDir |-> isDir, Readable |-> readable, Data |-> data]

\* the entries loadFromZipBytes hands to parseAndStore: files, named *.json,
\* that can be read
entryHandedOver(f) == ~f.IsDir /\ HasSuffix(f.Name, k_json) /\ f.Readable

\* one iteration of the loop of loadFromZipBytes, on Service.scriptures
zipEntryScriptures(m, f) ==
    IF entryHandedOver(f) THEN parseAndStoreScriptures(m, f.Data, f.Name) ELSE m

\* one iteration of the loop of loadFromZipBytes, on Service.collections
zipEntryCollections(c, f) ==
    IF entryHandedOver(f) THEN parseAndStoreCollections(c, f.Data, f.Name) ELSE c

\* a file of a directory; Exists is false when os.ReadFile fails
DirFile(exists, data) == [Exists |-> exists, Data |-> data]
NoFile == DirFile(FALSE, DocMalformed)

\* one iteration of the file loop of loadFromDir, on Service.scriptures
dirFileScriptures(m, dir, f) ==
    IF dir[f].Exists THEN parseAndStoreScriptures(m, dir[f].Data, f) ELSE m

\* one iteration of the file loop of loadFromDir, on Service.collections
dirFileCollections(c, dir, f) ==
    IF dir[f].Exists THEN parseAndStoreCollections(c, dir[f].Data, f) ELSE c

\* the entries an archive may hold
ZipEntries ==
    { ZipEntry(f_nt, FALSE, TRUE, DocNT),
      ZipEntry(f_ot, FALSE, TRUE, DocOT),
      ZipEntry(f_otCopy, FALSE, TRUE, DocEmptyObject),
      ZipEntry(f_bom, FALSE, TRUE, DocEmptyBook),
      ZipEntry(f_pgp, FALSE, TRUE, DocMalformed),
      ZipEntry(f_notes, FALSE, FALSE, DocNT),
      ZipEntry(f_readme, FALSE, TRUE, DocMalformed),
      ZipEntry(f_bakDir, TRUE, TRUE, DocMalformed) }

\* the archives: at most MaxFiles entries
RECURSIVE Archives(_)
Archives(n) ==
    IF n = 0 THEN {<<>>}
    ELSE Archives(n - 1) \cup
         {Append(a, f) : a \in {b \in Archives(n - 1) : Len(b) = n - 1}, f \in ZipEntries}

\* the directories: at most MaxFiles of the expected files are there
Directories ==
    {dir \in [{scriptureJSONFilenames[i] : i \in 1..Len(scriptureJSONFilenames)} ->
                {NoFile, DirFile(TRUE, DocNT), DirFile(TRUE, DocEmptyBook),
                 DirFile(TRUE, DocMalformed)}] :
        Cardinality({f \in DOMAIN dir : dir[f].Exists}) <= MaxFiles}

\* NewService on an archive or on a directory of discrete files
LoaderInit ==
    /\ scriptures = <<>>
    /\ collections = <<>>
    /\ pc = "loading"
    /\ nLoaded = 0
    /\ op = "none"
    /\ args \in {[mode |-> "zip", entries |-> a, dir |-> <<>>] : a \in Archives(MaxFiles)}
            \cup {[mode |-> "dir", entries |-> <<>>, dir |-> d] : d \in Directories}
    /\ result = <<>>
    /\ prevResult = <<>>

\* one iteration of `for _, f := range r.File` in loadFromZipBytes
ReadZipEntry ==
    /\ pc = "loading"
    /\ args.mode = "zip"
    /\ nLoaded < Len(args.entries)
    /\ scriptures' = zipEntryScriptures(scriptures, args.entries[nLoaded + 1])
    /\ collections' = zipEntryCollections(collections, args.entries[nLoaded + 1])
    /\ nLoaded' = nLoaded + 1
    /\ UNCHANGED <<pc, op, args, result, prevResult>>

\* one iteration of `for _, f := range files` in loadFromDir
ReadDirFile ==
    /\ pc = "loading"
    /\ args.mode = "dir"
    /\ nLoaded < Len(scriptureJSONFilenames)
    /\ scriptures' = dirFileScriptures(scriptures, args.dir,
                                       scriptureJSONFilenames[nLoaded + 1])
    /\ collections' = dirFileCollections(collections, args.dir,
                                         scriptureJSONFilenames[nLoaded + 1])
    /\ nLoaded' = nLoaded + 1
    /\ UNCHANGED <<pc, op, args, result, prevResult>>

\* the loop is over and the loader returns
LoaderReturns ==
    /\ pc = "loading"
    /\ \/ args.mode = "zip" /\ nLoaded = Len(args.entries)
       \/ args.mode = "dir" /\ nLoaded = Len(scriptureJSONFilenames)
    /\ pc' = "serving"
    /\ UNCHANGED <<scriptures, collections, nLoaded, op, args, result, prevResult>>

LoaderNext ==
    \/ ReadZipEntry
    \/ ReadDirFile
    \/ LoaderReturns

LoaderSpec == LoaderInit /\ [][LoaderNext]_vars

(***************************************************************************)
(* loadScriptures: the override directory, the embedded data and the       *)
(* directory next to the executable, in that order.  args holds the three  *)
(* sources; pc is "loading" at the start, "override" after the override    *)
(* directory was read, "embedded" after the embedded data was read;        *)
(* nLoaded counts the sources consulted.                                   *)
(***************************************************************************)
\* a place data is loaded from: Zip is "none" when reading scriptures.zip
\* fails, "invalid" when zip.NewReader rejects it, "ok" otherwise
Source(zip, entries, files) == [Zip |-> zip, Entries |-> entries, Files |-> files]

\* the loop of loadFromZipBytes over a readable archive, on Service.scriptures
RECURSIVE loadFromZipBytesScriptures(_, _)
loadFromZipBytesScriptures(m, entries) ==
    IF entries = <<>> THEN m
    ELSE zipEntryScriptures(
             loadFromZipBytesScriptures(m, SubSeq(entries, 1, Len(entries) - 1)),
             entries[Len(entries)])

\* the loop of loadFromZipBytes over a readable archive, on Service.collections
RECURSIVE loadFromZipBytesCollections(_, _)
loadFromZipBytesCollections(c, entries) ==
    IF entries = <<>> THEN c
    ELSE zipEntryCollections(
             loadFromZipBytesCollections(c, SubSeq(entries, 1, Len(entries) - 1)),
             entries[Len(entries)])

\* the first n iterations of the loop over scriptureJSONFilenames, on
\* Service.scriptures
RECURSIVE discreteFilesScriptures(_, _, _)
discreteFilesScriptures(m, files, n) ==
    IF n = 0 THEN m
    ELSE dirFileScriptures(discreteFilesScriptures(m, files, n - 1), files,
                           scriptureJSONFilenames[n])

\* the first n iterations of the loop over scriptureJSONFilenames, on
\* Service.collections
RECURSIVE discreteFilesCollections(_, _, _)
discreteFilesCollections(c, files, n) ==
    IF n = 0 THEN c
    ELSE dirFileCollections(discreteFilesCollections(c, files, n - 1), files,
                            scriptureJSONFilenames[n])

\* loadFromDir on Service.scriptures: the archive when it loads, else the
\* discrete files
loadFromDirScriptures(m, src) ==
    IF src.Zip = "ok" THEN loadFromZipBytesScriptures(m, src.Entries)
    ELSE discreteFilesScriptures(m, src.Files, Len(scriptureJSONFilenames))

\* loadFromDir on Service.collections
loadFromDirCollections(c, src) ==
    IF src.Zip = "ok" THEN loadFromZipBytesCollections(c, src.Entries)
    ELSE discreteFilesCollections(c, src.Files, Len(scriptureJSONFilenames))

\* loadFromEmbedded on Service.scriptures: the embedded archive when it loads,
\* else the embedded discrete files
loadFromEmbeddedScriptures(m, src) ==
    IF src.Zip = "ok" THEN loadFromZipBytesScriptures(m, src.Entries)
    ELSE discreteFilesScriptures(m, src.Files, Len(scriptureJSONFilenames))

\* loadFromEmbedded on Service.collections
loadFromEmbeddedCollections(c, src) ==
    IF src.Zip = "ok" THEN loadFromZipBytesCollections(c, src.Entries)
    ELSE discreteFilesCollections(c, src.Files, Len(scriptureJSONFilenames))

\* a directory in which none of the expected files can be read
NoFiles == [f \in {scriptureJSONFilenames[i] : i \in 1..Len(scriptureJSONFilenames)} |-> NoFile]

\* the sources tried: nothing there; discrete files; an archive; an archive
\* zip.NewReader rejects next to discrete files; data without any verse
SourceNothing == Source("none", <<>>, NoFiles)
SourceNTFiles == Source("none", <<>>, [NoFiles EXCEPT ![f_nt] = DirFile(TRUE, DocNT)])
SourceOTArchive ==
    Source("ok", <<ZipEntry(f_ot, FALSE, TRUE, DocOT)>>,
           [NoFiles EXCEPT ![f_nt] = DirFile(TRUE, DocNT)])
SourceBadArchive ==
    Source("invalid", <<>>, [NoFiles EXCEPT ![f_bom] = DirFile(TRUE, DocBoM)])
SourceNotesOnly == Source("ok", <<ZipEntry(f_notes, FALSE, TRUE, DocEmptyObject)>>, NoFiles)
SourceEmptyBook == Source("none", <<>>, [NoFiles EXCEPT ![f_pgp] = DirFile(TRUE, DocEmptyBook)])
Sources ==
    {SourceNothing, SourceNTFiles, SourceOTArchive, SourceBadArchive,
     SourceNotesOnly, SourceEmptyBook}

\* NewService in an environment: SCRIPTURES_DATA_DIR set or not, the embedded
\* data, os.Executable succeeding or not
LoadScripturesInit ==
    /\ scriptures = <<>>
    /\ collections = <<>>
    /\ pc = "loading"
    /\ nLoaded = 0
    /\ op = "none"
    /\ args \in [overrideSet : BOOLEAN, override : Sources, embedded : Sources,
                 exeKnown : BOOLEAN, exeDir : Sources]
    /\ result = <<>>
    /\ prevResult = <<>>

\* SCRIPTURES_DATA_DIR is set: loadFromDir(override)
ConsultOverride ==
    /\ pc = "loading"
    /\ args.overrideSet
    /\ scriptures' = loadFromDirScriptures(scriptures, args.override)
    /\ collections' = loadFromDirCollections(collections, args.override)
    /\ nLoaded' = nLoaded + 1
    /\ pc' = "override"
    /\ UNCHANGED <<op, args, result, prevResult>>

\* the override directory gave verses: loadScriptures returns
OverrideLoaded ==
    /\ pc = "override"
    /\ DOMAIN scriptures # {}
    /\ pc' = "serving"
    /\ UNCHANGED <<scriptures, collections, nLoaded, op, args, result, prevResult>>

\* no override, or no verse from it: loadFromEmbedded
ConsultEmbedded ==
    /\ \/ pc = "loading" /\ ~args.overrideSet
       \/ pc = "override" /\ DOMAIN scriptures = {}
    /\ scriptures' = loadFromEmbeddedScriptures(scriptures, args.embedded)
    /\ collections' = loadFromEmbeddedCollections(collections, args.embedded)
    /\ nLoaded' = nLoaded + 1
    /\ pc' = "embedded"
    /\ UNCHANGED <<op, args, result, prevResult>>

\* the embedded data gave verses: loadScriptures returns
EmbeddedLoaded ==
    /\ pc = "embedded"
    /\ DOMAIN scriptures # {}
    /\ pc' = "serving"
    /\ UNCHANGED <<scriptures, collections, nLoaded, op, args, result, prevResult>>

\* still no verse: the data directory next to the executable, when
\* os.Executable names one
ConsultExeDir ==
    /\ pc = "embedded"
    /\ DOMAIN scriptures = {}
    /\ scriptures' = IF args.exeKnown
                     THEN loadFromDirScriptures(scriptures, args.exeDir) ELSE scriptures
    /\ collections' = IF args.exeKnown
                      THEN loadFromDirCollections(collections, args.exeDir) ELSE collections
    /\ nLoaded' = IF args.exeKnown THEN nLoaded + 1 ELSE nLoaded
    /\ pc' = "serving"
    /\ UNCHANGED <<op, args, result, prevResult>>

LoadScripturesNext ==
    \/ ConsultOverride
    \/ OverrideLoaded
    \/ ConsultEmbedded
    \/ EmbeddedLoaded
    \/ ConsultExeDir

LoadScripturesSpec == LoadScripturesInit /\ [][LoadScripturesNext]_vars

(***************************************************************************)
(* The chapter-scoped variant of the term count, countTermsWithReference.  *)
(* Its code is not among the source files (the tests call it); it is       *)
(* written here from the specification: the scanned verses are those the   *)
(* chapter lookup returns for the parsed reference, tokenized and counted  *)
(* as countTerms does.  Without a reference it is countTerms.              *)
(***************************************************************************)
\* the increments of the counting loop over a list of verses: <<v, w, t>> is
\* the v-th verse, its w-th word and the t-th term
countIncrementsIn(verses, terms, ignoreCommon) ==
    UNION { UNION {
        {<<v, w, t>> :
            t \in {t \in 1..Len(terms) : verseWords(verses[v])[w] = ToLower(terms[t])}} :
        w \in countedWordIndices(verseWords(verses[v]), ignoreCommon)} :
        v \in 1..Len(verses)}

countTermsWithReference(terms, book, collection, reference, ignoreCommon, iterS, iterC) ==
    IF reference = <<>>
    THEN countTerms(terms, book, collection, ignoreCommon, iterS, iterC)
    ELSE LET ref == parseChapterReference(reference).ref
             increments == countIncrementsIn(getChapter(ref.Book, ref.Chapter),
                                             terms, ignoreCommon)
         IN  [k \in countKeys(terms) |->
                Cardinality({x \in increments : ToLower(terms[x[3]]) = k})]

\* the chapter references tried, and no reference
ChapterReferences == {<<>>, ref_1Ne_1, ref_1Ne_2, ref_John_1, ref_Ruth_1}

\* one call of countTermsWithReference: with a chapter reference and no
\* filter, or without a reference
CountTermsWithReference ==
    /\ pc = "serving"
    /\ op = "none"
    /\ \E terms \in TermLists, book \in {<<>>, s_1Nephi}, reference \in ChapterReferences,
          ignoreCommon \in BOOLEAN :
        /\ reference # <<>> => book = <<>>
        /\ reference # <<>> => parseChapterReference(reference).err = "nil"
        /\ \E iterS \in (IF book = <<>> /\ reference = <<>>
                         THEN KeyOrders(DOMAIN scriptures) ELSE {<<>>}) :
             /\ result' = countTermsWithReference(terms, book, <<>>, reference,
                                                  ignoreCommon, iterS, <<>>)
             /\ args' = [terms |-> terms, book |-> book, collection |-> <<>>,
                         reference |-> reference, ignoreCommon |-> ignoreCommon]
    /\ op' = "countTermsWithReference"
    /\ prevResult' = <<>>
    /\ UNCHANGED <<scriptures, collections, pc, nLoaded>>

CountNext ==
    \/ ParseAndStore
    \/ NewServiceReturns
    \/ CountTermsWithReference
    \/ Return

CountSpec == Init /\ [][CountNext]_vars

(***************************************************************************)
(* Vocabulary of the properties.                                           *)
(***************************************************************************)
\* the (collection, book, chapter, verse) tuple of a is lexicographically <=
\* that of b
TupleLeq(a, b) ==
    \/ StrLess(a.Collection, b.Collection)
    \/ /\ a.Collection = b.Collection
       /\ \/ StrLess(a.Book, b.Book)
          \/ /\ a.Book = b.Book
             /\ \/ a.Chapter < b.Chapter
                \/ a.Chapter = b.Chapter /\ a.Verse <= b.Verse

\* the positions <<book, index>> of the store
StorePositions ==
    UNION {{<<b, i>> : i \in 1..Len(scriptures[b])} : b \in DOMAIN scriptures}

\* the positions of the store whose verse matches a search query
MatchingPositions(query) ==
    {p \in StorePositions : matchesQuery(scriptures[p[1]][p[2]], ToLower(query))}

\* the verses stored under a book name (none for an unknown book)
StoredUnder(book) == IF book \in DOMAIN scriptures THEN scriptures[book] ELSE <<>>

\* res lists exactly the elements of seq at the indices idx, in seq's order
IsSelection(res, seq, idx) ==
    /\ Len(res) = Cardinality(idx)
    /\ \A i \in idx : res[Cardinality({j \in idx : j < i}) + 1] = seq[i]

(***************************************************************************)
(* C1 -- Determinism of search: a search repeated with identical (query,   *)
(* limit, book, collection) on the same store returns the same verses in   *)
(* the same order as the call before it, whatever order the two calls      *)
(* iterate the maps in, also when the result is cut off at limit.          *)
(***************************************************************************)
C1_Determinism == prevResult # <<>> => prevResult[1] = result

\* a repeated unfiltered search over several books that was cut off at limit
C1_Witness ==
    /\ op = "search"
    /\ prevResult # <<>>
    /\ args.book = <<>> /\ args.collection = <<>>
    /\ Cardinality(DOMAIN scriptures) >= 2
    /\ args.limit >= 1
    /\ Cardinality(MatchingPositions(args.query)) > args.limit
    /\ Len(result) = args.limit

(***************************************************************************)
(* C2 -- Ordering invariant of search: every adjacent pair of a search     *)
(* result is non-decreasing in (collection, book, chapter, verse), also    *)
(* when the result was cut off at limit.                                   *)
(***************************************************************************)
C2_ResultsSorted ==
    op = "search" =>
        \A i \in 1..(Len(result) - 1) : TupleLeq(result[i], result[i + 1])

(***************************************************************************)
(* C3 -- Result cap: for every limit N >= 1 a search returns at most N     *)
(* verses.                                                                 *)
(***************************************************************************)
C3_ResultCap == (op = "search" /\ args.limit >= 1) => Len(result) <= args.limit

\* more verses of the store match than the limit allows, and the result is full
C3_Witness ==
    /\ op = "search"
    /\ prevResult = <<>>
    /\ args.limit >= 1
    /\ args.book = <<>> /\ args.collection = <<>>
    /\ Cardinality(MatchingPositions(args.query)) > args.limit
    /\ Len(result) = args.limit

(***************************************************************************)
(* C4 -- Dedup: no two elements of a search result share the same          *)
(* reference string, for every store the loader can produce.               *)
(***************************************************************************)
C4_NoDuplicateReference ==
    op = "search" =>
        \A i, j \in 1..Len(result) :
            i # j => result[i].Reference # result[j].Reference

(***************************************************************************)
(* C5 -- Verse/range lookup: getScripturesByReference returns exactly the  *)
(* verses stored under the book whose chapter equals the reference's       *)
(* chapter and whose verse number lies in [verse, endVerse], in the        *)
(* store's order; an unknown book or absent chapter/verse gives the empty  *)
(* result.                                                                 *)
(***************************************************************************)
C5_RangeLookup ==
    op = "getScripturesByReference" =>
        LET stored == StoredUnder(args.Book) IN
        IsSelection(result, stored,
            {i \in 1..Len(stored) :
                /\ stored[i].Chapter = args.Chapter
                /\ args.Verse <= stored[i].Verse
                /\ stored[i].Verse <= args.EndVerse})

\* a range of two verses is returned while the book holds further verses
C5_Witness ==
    /\ op = "getScripturesByReference"
    /\ args.Verse < args.EndVerse
    /\ Len(result) = 2
    /\ result[1].Verse = args.Verse /\ result[2].Verse = args.EndVerse
    /\ Len(StoredUnder(args.Book)) > 2

(***************************************************************************)
(* C6 -- Chapter lookup completeness: getChapter returns every verse       *)
(* stored under the book whose chapter equals the requested chapter and    *)
(* no other verse; a chapter that does not exist gives the empty result.   *)
(***************************************************************************)
C6_ChapterLookup ==
    op = "getChapter" =>
        LET stored == StoredUnder(args.book) IN
        IsSelection(result, stored,
            {i \in 1..Len(stored) : stored[i].Chapter = args.chapter})

\* a chapter is returned whole while the book also holds a later chapter
C6_Witness ==
    /\ op = "getChapter"
    /\ Len(result) >= 2
    /\ \E i \in 1..Len(StoredUnder(args.book)) :
           StoredUnder(args.book)[i].Chapter > args.chapter

(***************************************************************************)
(* C7 -- Book filter: a search with a non-empty book filter returns only   *)
(* verses whose book field equals the filter, even if the query matches    *)
(* verses of other books of the store.                                     *)
(***************************************************************************)
C7_BookFilter ==
    (op = "search" /\ args.book # <<>>) =>
        \A i \in 1..Len(result) : result[i].Book = args.book

\* the filtered search found something and the query also matches another book
C7_Witness ==
    /\ op = "search"
    /\ args.book # <<>>
    /\ result # <<>>
    /\ \E p \in MatchingPositions(args.query) : p[1] # args.book

(***************************************************************************)
(* C8 -- Filter precedence: a search given both a book filter and a        *)
(* collection filter returns what the search with the book filter alone    *)
(* returns.                                                                *)
(***************************************************************************)
C8_BookTakesPrecedence ==
    (op = "search" /\ args.book # <<>> /\ args.collection # <<>>) =>
        result = performSearchWithFilters(args.query, args.limit, args.book,
                                          <<>>, <<>>, <<>>)

\* the books in the scope of a term count: the named book, else the books
\* listed under the named collection, else every book of the store
ScopeBooks(book, collection) ==
    IF book # <<>> THEN {book} \cap DOMAIN scriptures
    ELSE IF collection # <<>>
    THEN {b \in DOMAIN scriptures :
            \E c \in DOMAIN collections :
                /\ ToLower(c) = ToLower(collection)
                /\ \E i \in 1..Len(collections[c]) : collections[c][i] = b}
    ELSE DOMAIN scriptures

\* the tokens in scope, as positions <<book, verse index, word index>>
ScopeTokens(book, collection) ==
    UNION {{<<p[1], p[2], k>> : k \in 1..Len(verseWords(scriptures[p[1]][p[2]]))} :
              p \in {q \in StorePositions : q[1] \in ScopeBooks(book, collection)}}

TokenAt(t) == verseWords(scriptures[t[1]][t[2]])[t[3]]

\* the number of tokens in scope equal to the lowercased term
Occurrences(term, book, collection) ==
    Cardinality({t \in ScopeTokens(book, collection) : TokenAt(t) = ToLower(term)})

\* the same, counting only tokens that survive the stop-word filter
SurvivingOccurrences(term, book, collection, ignoreCommon) ==
    Cardinality({t \in ScopeTokens(book, collection) :
                    /\ TokenAt(t) = ToLower(term)
                    /\ ~(ignoreCommon /\ TokenAt(t) \in commonWords)})

(***************************************************************************)
(* C9 -- Stop-word exclusion: with the stop-word toggle on, countTerms     *)
(* returns 0 for every requested term of the stop-word list; with the      *)
(* toggle off it returns the number of tokens in scope equal to the term.  *)
(***************************************************************************)
C9_StopWordExclusion ==
    op = "countTerms" =>
        \A n \in 1..Len(args.terms) :
            LET term == ToLower(args.terms[n]) IN
            term \in commonWords =>
                result[term] = IF args.ignoreCommon THEN 0
                               ELSE Occurrences(term, args.book, args.collection)

(***************************************************************************)
(* C10 -- Term count semantics: countTerms returns a map with a key for    *)
(* the lowercased form of every requested term, whose value is the number  *)
(* of tokens in scope that survive the stop-word filter and equal the term *)
(* case-insensitively; a term that never occurs has count 0.               *)
(***************************************************************************)
C10_TermCounts ==
    op = "countTerms" =>
        \A n \in 1..Len(args.terms) :
            LET term == ToLower(args.terms[n]) IN
            /\ term \in DOMAIN result
            /\ result[term] = SurvivingOccurrences(term, args.book, args.collection,
                                                   args.ignoreCommon)

(***************************************************************************)
(* C11 -- Fuzzy floor: for a query of length <= 3 every verse returned by  *)
(* the search with the fuzzy pass literally contains the lowercased query  *)
(* in its lowercased text or in its lowercased book name; the fuzzy pass   *)
(* adds nothing.                                                           *)
(***************************************************************************)
C11_FuzzyFloor ==
    op = "legacySearch" /\ Len(args.query) <= 3 =>
        \A i \in 1..Len(result.results) :
            \/ Contains(ToLower(result.results[i].Text), ToLower(args.query))
            \/ Contains(ToLower(result.results[i].Book), ToLower(args.query))

\* a short query for which the exact pass left room below limit while a
\* stored verse is one edit away from the query
C11_Witness ==
    /\ op = "legacySearch"
    /\ Len(args.query) <= 3
    /\ ~result.panic
    /\ Len(result.results) < args.limit
    /\ \E b \in DOMAIN scriptures : \E i \in 1..Len(scriptures[b]) :
          bestDistance(scriptures[b][i], ToLower(args.query)) = 1

(***************************************************************************)
(* C12 -- The two reference grammars are mutually exclusive: a string      *)
(* accepted by parseReference is rejected by parseChapterReference with    *)
(* its invalid-format error, and a string accepted by                      *)
(* parseChapterReference is rejected by parseReference with its            *)
(* invalid-format error; no string is accepted by both.                    *)
(***************************************************************************)
C12_GrammarsExclusive ==
    /\ op = "parseReference" /\ result.err = "nil" =>
          parseChapterReference(args.reference).err = "invalid chapter reference format"
    /\ op = "parseChapterReference" /\ result.err = "nil" =>
          parseReference(args.reference).err = "invalid reference format"

\* a typed string that the verse grammar accepts
C12_Witness ==
    /\ op = "parseReference"
    /\ ~args.form.composed
    /\ result.err = "nil"

(***************************************************************************)
(* C13 -- Colon rule of the parsers: a string that contains a colon        *)
(* anywhere is rejected by parseChapterReference, and a string that        *)
(* contains no colon is rejected by parseReference.                        *)
(***************************************************************************)
C13_ColonRule ==
    /\ (op = "parseChapterReference"
          /\ \E i \in 1..Len(args.reference) : args.reference[i] = 58)
       => result.err # "nil"
    /\ (op = "parseReference"
          /\ \A i \in 1..Len(args.reference) : args.reference[i] # 58)
       => result.err # "nil"

(***************************************************************************)
(* C14 -- parseReference result: a string '<book> <chapter>:<verse>' with  *)
(* a non-empty book (spaces and leading numerals allowed), optionally      *)
(* surrounded by white space, parses to exactly (book, chapter, verse,     *)
(* endVerse = verse); with '-<end>' appended endVerse = end; and white     *)
(* space added before and after any string never changes the result.       *)
(***************************************************************************)
\* the number a part of a composed reference stands for
NumberOf(digits) ==
    IF digits = n_3 THEN 3 ELSE IF digits = n_16 THEN 16 ELSE IF digits = n_07 THEN 7
    ELSE 0

C14_ParseReferenceResult ==
    op = "parseReference" =>
        /\ args.form.composed =>
              /\ result.err = "nil"
              /\ result.ref =
                    [Book |-> args.form.book,
                     Chapter |-> NumberOf(args.form.chapter),
                     Verse |-> NumberOf(args.form.verse),
                     EndVerse |-> IF args.form.end = <<>>
                                  THEN NumberOf(args.form.verse)
                                  ELSE NumberOf(args.form.end)]
        /\ \A lead \in RefPadding, trail \in RefPadding :
              parseReference(lead \o args.reference \o trail) = result

\* a single-verse reference to a book with a leading numeral and a space,
\* with white space around it
C14_Witness ==
    /\ op = "parseReference"
    /\ args.form.composed
    /\ args.form.book = s_1Nephi
    /\ args.form.end = <<>>
    /\ args.form.lead # <<>> /\ args.form.trail # <<>>
    /\ result.err = "nil"

(***************************************************************************)
(* C15 -- Validation failures are distinguishable from empty results:      *)
(* SearchScriptures, GetScripture and GetChapter flag their result as an   *)
(* error exactly when the query argument is missing, not a string or       *)
(* empty, or when the parser of GetScripture / GetChapter rejects the      *)
(* reference; a well-formed request that matches nothing gets a non-error  *)
(* result with the 'not found' text.                                       *)
(***************************************************************************)
\* the query argument is there, is a string and is not empty
QueryGiven == args.query.kind = "string" /\ args.query.val # <<>>

\* some stored verse lies in the chapter and verse range of the reference
VerseStored(ref) ==
    \E i \in 1..Len(StoredUnder(ref.Book)) :
        /\ StoredUnder(ref.Book)[i].Chapter = ref.Chapter
        /\ StoredUnder(ref.Book)[i].Verse >= ref.Verse
        /\ StoredUnder(ref.Book)[i].Verse <= ref.EndVerse

\* some stored verse lies in the chapter of the reference
ChapterStored(ref) ==
    \E i \in 1..Len(StoredUnder(ref.Book)) :
        StoredUnder(ref.Book)[i].Chapter = ref.Chapter

C15_ValidationErrors ==
    /\ op = "SearchScriptures" =>
          /\ ~result.panic
          /\ result.result.IsError <=> ~QueryGiven
          /\ (QueryGiven /\ MatchingPositions(args.query.val) = {}) =>
                /\ result.result.Content.lines = <<>>
                /\ result.result.Content.head[1] =
                      "No scriptures found matching '%s'%s. Try different keywords or check spelling."
    /\ op = "GetScripture" =>
          /\ ~result.panic
          /\ result.result.IsError <=>
                (~QueryGiven \/ parseReference(args.query.val).err # "nil")
          /\ (QueryGiven /\ parseReference(args.query.val).err = "nil"
                /\ ~VerseStored(parseReference(args.query.val).ref)) =>
                result.result.Content =
                    Text(Sprintf("Scripture reference '%s' not found.",
                                 <<args.query.val>>), <<>>)
    /\ op = "GetChapter" =>
          /\ ~result.panic
          /\ result.result.IsError <=>
                (~QueryGiven \/ parseChapterReference(args.query.val).err # "nil")
          /\ (QueryGiven /\ parseChapterReference(args.query.val).err = "nil"
                /\ ~ChapterStored(parseChapterReference(args.query.val).ref)) =>
                result.result.Content =
                    Text(Sprintf("Chapter '%s' not found.", <<args.query.val>>), <<>>)

\* a well-formed verse reference to a chapter of a stored book that has no
\* such verse: answered with the 'not found' text and no error flag
C15_Witness ==
    /\ op = "GetScripture"
    /\ QueryGiven
    /\ parseReference(args.query.val).err = "nil"
    /\ parseReference(args.query.val).ref.Book \in DOMAIN scriptures
    /\ ~VerseStored(parseReference(args.query.val).ref)
    /\ ~result.result.IsError

(***************************************************************************)
(* C16 -- Unknown filters are not errors: a search whose book filter names *)
(* no stored book, or whose collection filter names no known collection,   *)
(* returns no verse, and the entry point answers with the non-error 'no    *)
(* results' text, never with a validation error.                           *)
(***************************************************************************)
BookFilterGiven == args.book.kind = "string" /\ args.book.val # <<>>
CollectionFilterGiven == args.collection.kind = "string" /\ args.collection.val # <<>>
BookUnknown == BookFilterGiven /\ args.book.val \notin DOMAIN scriptures
CollectionUnknown ==
    /\ CollectionFilterGiven
    /\ \A c \in DOMAIN collections : ToLower(c) # ToLower(args.collection.val)

C16_UnknownFilters ==
    (op = "SearchScriptures" /\ QueryGiven /\ (BookUnknown \/ CollectionUnknown)) =>
        /\ ~result.panic
        /\ ~result.result.IsError
        /\ result.result.Content.lines = <<>>
        /\ result.result.Content.head[1] =
              "No scriptures found matching '%s'%s. Try different keywords or check spelling."

\* the query matches stored verses, but the collection filter names no known
\* collection
C16_Witness ==
    /\ op = "SearchScriptures"
    /\ QueryGiven
    /\ MatchingPositions(args.query.val) # {}
    /\ ~BookFilterGiven
    /\ CollectionUnknown
    /\ ~result.result.IsError

(***************************************************************************)
(* C17 -- No error or panic crosses the core boundary: whatever the        *)
(* argument map holds (missing or wrongly typed arguments, any integer     *)
(* limit, 0 and negative ones included) and whatever the store, an entry   *)
(* point returns a result together with a nil error and does not panic.    *)
(***************************************************************************)
EntryPoints ==
    {"SearchScriptures", "GetScripture", "GetChapter", "ListBooks",
     "ListCollections", "GetTermCounts"}

C17_NoPanicNilError ==
    op \in EntryPoints => (~result.panic /\ result.err = "nil")

(***************************************************************************)
(* C18 -- Store/index consistency after loading: after any sequence of     *)
(* documents has been loaded, every book name listed in the Collection     *)
(* Index has a non-empty entry in the Verse Store, and every book with an  *)
(* entry in the Verse Store is listed under some collection.               *)
(***************************************************************************)
\* the book names listed under some collection
ListedBooks ==
    UNION {{collections[c][i] : i \in 1..Len(collections[c])} : c \in DOMAIN collections}

C18_StoreIndexConsistent ==
    /\ \A b \in ListedBooks : b \in DOMAIN scriptures /\ scriptures[b] # <<>>
    /\ \A b \in DOMAIN scriptures : b \in ListedBooks

(***************************************************************************)
(* C19 -- Malformed documents are skipped without effect: at every point   *)
(* of a load, the Verse Store and the Collection Index are what storing    *)
(* the documents handed over so far, the undecodable ones left out, gives; *)
(* so the documents after an undecodable one are still processed and the   *)
(* load does not abort.                                                    *)
(***************************************************************************)
\* the <<label, data>> pairs handed to parseAndStore by the first n iterations
RECURSIVE HandedOver(_)
HandedOver(n) ==
    IF n = 0 THEN <<>>
    ELSE IF args.mode = "zip"
    THEN (IF entryHandedOver(args.entries[n])
          THEN Append(HandedOver(n - 1), <<args.entries[n].Name, args.entries[n].Data>>)
          ELSE HandedOver(n - 1))
    ELSE (IF args.dir[scriptureJSONFilenames[n]].Exists
          THEN Append(HandedOver(n - 1),
                      <<scriptureJSONFilenames[n], args.dir[scriptureJSONFilenames[n]].Data>>)
          ELSE HandedOver(n - 1))

\* the documents of a sequence that decode
Decodable(docs) == SelectSeq(docs, LAMBDA d : d[2].ok)

\* the Verse Store after storing a sequence of documents
RECURSIVE StoreOf(_)
StoreOf(docs) ==
    IF docs = <<>> THEN <<>>
    ELSE parseAndStoreScriptures(StoreOf(SubSeq(docs, 1, Len(docs) - 1)),
                                 docs[Len(docs)][2], docs[Len(docs)][1])

\* the Collection Index after storing a sequence of documents
RECURSIVE IndexOf(_)
IndexOf(docs) ==
    IF docs = <<>> THEN <<>>
    ELSE parseAndStoreCollections(IndexOf(SubSeq(docs, 1, Len(docs) - 1)),
                                  docs[Len(docs)][2], docs[Len(docs)][1])

C19_MalformedSkipped ==
    /\ scriptures = StoreOf(Decodable(HandedOver(nLoaded)))
    /\ collections = IndexOf(Decodable(HandedOver(nLoaded)))
    /\ (pc = "loading" /\ args.mode = "zip" /\ nLoaded < Len(args.entries))
          => ENABLED ReadZipEntry
    /\ (pc = "loading" /\ args.mode = "dir" /\ nLoaded < Len(scriptureJSONFilenames))
          => ENABLED ReadDirFile

\* the load is over; an undecodable document was handed over before one that
\* decodes, and the books of the later one are stored
C19_Witness ==
    /\ pc = "serving"
    /\ \E i, j \in 1..Len(HandedOver(nLoaded)) :
          /\ i < j
          /\ ~HandedOver(nLoaded)[i][2].ok
          /\ HandedOver(nLoaded)[j][2].ok
          /\ HandedOver(nLoaded)[j][2].Books # <<>>
          /\ \A k \in 1..Len(HandedOver(nLoaded)[j][2].Books) :
                HandedOver(nLoaded)[j][2].Books[k].Book \in DOMAIN scriptures

(***************************************************************************)
(* C20 -- Queries are read-only: once loading is over, no step (a search   *)
(* with any filters, a verse or chapter lookup, a listing of collections   *)
(* or books, a count of terms, the return of a result) changes the Verse   *)
(* Store or the Collection Index, the order of the book list held for each *)
(* collection included.                                                    *)
(***************************************************************************)
C20_QueriesReadOnly ==
    [][pc = "serving" => (scriptures' = scriptures /\ collections' = collections)]_vars

\* a search with a collection filter found verses in a collection whose book
\* list is held in an order other than the sorted one
C20_Witness ==
    /\ op = "SearchScriptures"
    /\ QueryGiven
    /\ ~BookFilterGiven
    /\ CollectionFilterGiven
    /\ result.result.Content.lines # <<>>
    /\ \E c \in DOMAIN collections :
          /\ ToLower(c) = ToLower(args.collection.val)
          /\ SortStrings(collections[c]) # collections[c]

(***************************************************************************)
(* C21 -- Load before serve: the store is built once, inside NewService,   *)
(* and the load is over before any query handler runs: no query is being   *)
(* served while documents are loaded, and once NewService has returned no  *)
(* load step runs any more.                                                *)
(***************************************************************************)
C21_LoadBeforeServe ==
    [][/\ op' # "none" => pc' = "serving"
       /\ pc = "serving" =>
             /\ pc' = "serving"
             /\ nLoaded' = nLoaded
             /\ scriptures' = scriptures
             /\ collections' = collections
       /\ nLoaded' # nLoaded => (pc = "loading" /\ op = "none")]_vars

\* a query is being served by a service that loaded two documents
C21_Witness ==
    /\ pc = "serving"
    /\ nLoaded = MaxFiles
    /\ DOMAIN scriptures # {}
    /\ op = "GetScripture"

(***************************************************************************)
(* C22 -- Chapter-scoped term counting: a term count called with a chapter *)
(* reference 'Book N' counts the tokens of the verses of chapter N of that *)
(* book only: every count equals the number of counted tokens in those     *)
(* verses, so verses of other chapters contribute nothing, and it is at    *)
(* most the count over the whole book.                                     *)
(***************************************************************************)
\* the tokens of chapter `chapter` of `book`, as <<verse index, word index>>
ChapterTokens(book, chapter) ==
    UNION {{<<v, w>> : w \in 1..Len(verseWords(StoredUnder(book)[v]))} :
              v \in {i \in 1..Len(StoredUnder(book)) :
                        StoredUnder(book)[i].Chapter = chapter}}

\* the number of (token, requested term) pairs of the chapter that are counted
\* under the key k
ChapterCount(k, book, chapter) ==
    Cardinality({x \in ChapterTokens(book, chapter) \X (1..Len(args.terms)) :
        /\ verseWords(StoredUnder(book)[x[1][1]])[x[1][2]] = ToLower(args.terms[x[2]])
        /\ ToLower(args.terms[x[2]]) = k
        /\ ~(args.ignoreCommon /\ k \in commonWords)})

ScanBefore(p, q) == StrLess(p[1], q[1]) \/ (p[1] = q[1] /\ p[2] < q[2])

C23_TruncationKeepsFirstMatches ==
    (/\ op = "search"
     /\ args.book = <<>>
     /\ args.collection = <<>>
     /\ args.limit >= 1
     /\ Cardinality(MatchingPositions(args.query)) > args.limit) =>
        /\ Len(result) = args.limit
        /\ \A i \in 1..args.limit :
              \E p \in MatchingPositions(args.query) :
                 /\ result[i] = scriptures[p[1]][p[2]]
                 /\ Cardinality({q \in MatchingPositions(args.query) :
                                    ScanBefore(q, p)}) = i - 1

\* more verses match than the limit allows, in two books or more
C23_Witness ==
    /\ op = "search"
    /\ args.book = <<>>
    /\ args.collection = <<>>
    /\ args.limit >= 1
    /\ Cardinality(MatchingPositions(args.query)) > args.limit
    /\ Cardinality({p[1] : p \in MatchingPositions(args.query)}) >= 2
    /\ Len(result) = args.limit

(***************************************************************************)
(* Vocabulary of the fuzzy pass.                                           *)
(***************************************************************************)
\* the score of a verse: the least edit distance between the lowercased query
\* and a whitespace-delimited word of the lowercased text or the lowercased
\* book name
FuzzyScore(scripture, query) ==
    LET words == Fields(ToLower(scripture.Text))
        ds == {LevenshteinDistance(ToLower(query), words[i]) : i \in 1..Len(words)}
                \cup {LevenshteinDistance(ToLower(query), ToLower(scripture.Book))}
    IN  CHOOSE d \in ds : \A e \in ds : d <= e

\* the scores that make a verse a candidate, by query length
QualifyingScores(query) ==
    IF Len(query) <= 3 THEN {}
    ELSE IF Len(query) <= 5 THEN {1}
    ELSE {1, 2}

Qualifies(scripture, query) == FuzzyScore(scripture, query) \in QualifyingScores(query)

\* the store positions whose verse the exact pass matches
ExactPositions(query) ==
    {p \in StorePositions :
        \/ Contains(ToLower(scriptures[p[1]][p[2]].Text), ToLower(query))
        \/ Contains(ToLower(scriptures[p[1]][p[2]].Book), ToLower(query))}

(***************************************************************************)
(* C24 -- Fuzzy results fill the list up to limit: when the exact pass     *)
(* yields e < limit results and at least limit - e qualifying fuzzy        *)
(* candidates carry a reference that is not among the exact results, the   *)
(* search result has exactly limit elements; a candidate that duplicates   *)
(* an exact result uses up no slot.                                        *)
(***************************************************************************)
\* the references of the qualifying verses that no exact match carries
FreshCandidateReferences(query) ==
    {scriptures[p[1]][p[2]].Reference :
        p \in {q \in StorePositions :
                  /\ Qualifies(scriptures[q[1]][q[2]], query)
                  /\ \A x \in ExactPositions(query) :
                        scriptures[x[1]][x[2]].Reference
                            # scriptures[q[1]][q[2]].Reference}}

C24_FuzzyFillsToLimit ==
    (/\ op = "legacySearch"
     /\ args.limit >= 1
     /\ Cardinality(ExactPositions(args.query)) < args.limit
     /\ Cardinality(FreshCandidateReferences(args.query))
          >= args.limit - Cardinality(ExactPositions(args.query))) =>
        /\ ~result.panic
        /\ Len(result.results) = args.limit

(***************************************************************************)
(* C25 -- Fuzzy candidate order is a stable sort: performFuzzySearch       *)
(* returns the qualifying candidates in ascending order of score, two      *)
(* candidates of equal score in the order the scan met them; cut at the    *)
(* limit, its result is the first candidates of that order.                *)
(***************************************************************************)
\* the indices, in the scan of this call, of the qualifying verses
CandidateIndices ==
    {i \in 1..Len(scanOrder(args.iter)) : Qualifies(scanOrder(args.iter)[i], args.query)}

\* candidate i goes before candidate j in a stable sort by score
StableBefore(i, j) ==
    LET si == FuzzyScore(scanOrder(args.iter)[i], args.query)
        sj == FuzzyScore(scanOrder(args.iter)[j], args.query)
    IN  si < sj \/ (si = sj /\ i < j)

C25_StableCandidateOrder ==
    op = "performFuzzySearch" =>
        \A k \in 1..Len(result) :
            \E i \in CandidateIndices :
                /\ result[k] = scanOrder(args.iter)[i]
                /\ Cardinality({j \in CandidateIndices : StableBefore(j, i)}) = k - 1

C27_BookNameCasePolicy ==
    /\ (op = "search" /\ args.book # <<>>) =>
          \A b \in DOMAIN scriptures :
              ToLower(b) = ToLower(args.book) =>
                  result = performSearchWithFilters(args.query, args.limit, b,
                                                    args.collection, <<>>, <<>>)
    /\ (op = "getScripturesByReference" /\ args.Book \notin DOMAIN scriptures) =>
          result = <<>>
    /\ (op = "getChapter" /\ args.book \notin DOMAIN scriptures) => result = <<>>

(***************************************************************************)
(* C28 -- Each book belongs to exactly one collection: after any sequence  *)
(* of documents has been loaded, no book name is listed under two          *)
(* different collections, and the collection field of every stored verse   *)
(* names the collection whose index entry lists the verse's book.          *)
(***************************************************************************)
\* the book names a collection lists
BooksListedUnder(c) == {collections[c][i] : i \in 1..Len(collections[c])}

C28_OneCollectionPerBook ==
    /\ \A c1, c2 \in DOMAIN collections :
          c1 # c2 => BooksListedUnder(c1) \cap BooksListedUnder(c2) = {}
    /\ \A p \in StorePositions :
          /\ scriptures[p[1]][p[2]].Collection \in DOMAIN collections
          /\ scriptures[p[1]][p[2]].Book
                \in BooksListedUnder(scriptures[p[1]][p[2]].Collection)

(***************************************************************************)
(* C29  Loader source priority.  loadScriptures consults the override      *)
(* directory (when SCRIPTURES_DATA_DIR is set), then the embedded data,    *)
(* then the directory next to the executable, and a later source only      *)
(* while the Verse Store is still empty; so once it has returned, the      *)
(* Verse Store and the Collection Index are what the first source that     *)
(* gives verses gives on its own, and an override that gives verses        *)
(* replaces the embedded data completely.                                  *)
(***************************************************************************)
\* what each source stores when it is loaded into an empty service
OverrideStore == loadFromDirScriptures(<<>>, args.override)
OverrideIndex == loadFromDirCollections(<<>>, args.override)
EmbeddedStore == loadFromEmbeddedScriptures(<<>>, args.embedded)
EmbeddedIndex == loadFromEmbeddedCollections(<<>>, args.embedded)
ExeDirStore == loadFromDirScriptures(<<>>, args.exeDir)
ExeDirIndex == loadFromDirCollections(<<>>, args.exeDir)

\* the override directory is consulted and gives verses
OverrideGivesVerses == args.overrideSet /\ DOMAIN OverrideStore # {}

C29_SourcePriority ==
    /\ (pc = "embedded" /\ args.overrideSet) => DOMAIN OverrideStore = {}
    /\ pc = "serving" =>
          IF OverrideGivesVerses
          THEN scriptures = OverrideStore /\ collections = OverrideIndex /\ nLoaded = 1
          ELSE IF DOMAIN EmbeddedStore # {}
          THEN scriptures = EmbeddedStore /\ collections = EmbeddedIndex
          ELSE IF args.exeKnown /\ DOMAIN ExeDirStore # {}
          THEN scriptures = ExeDirStore /\ collections = ExeDirIndex
          ELSE DOMAIN scriptures = {}

(***************************************************************************)
(* C30  Non-positive limit.  A search with limit <= 0 returns exactly one  *)
(* verse, the first verse of the scope, in scan order, that matches the    *)
(* query, when the scope holds a matching verse, and nothing only when it  *)
(* holds none.  The scope is the named book when a book filter is given    *)
(* and stored, else the books of the named collection, else every book in  *)
(* sorted order.                                                           *)
(***************************************************************************)
\* the book lists scope resolution can give for the search held in args
ScopeOrders ==
    IF args.book # <<>> THEN {searchOrder(args.book, args.collection, <<>>, <<>>)}
    ELSE IF args.collection # <<>>
    THEN {searchOrder(<<>>, args.collection, <<>>, iterC) :
             iterC \in KeyOrders(DOMAIN collections)}
    ELSE {searchOrder(<<>>, <<>>, iterS, <<>>) : iterS \in KeyOrders(DOMAIN scriptures)}

\* <<k, i>>: the i-th verse of the k-th book of the scope matches the query
ScopeMatches(order, query) ==
    {p \in UNION {{<<k, i>> : i \in 1..Len(StoredUnder(order[k]))} : k \in 1..Len(order)} :
        matchesQuery(scriptures[order[p[1]]][p[2]], ToLower(query))}

\* p comes before q in the scan
ScannedBefore(p, q) == p[1] < q[1] \/ (p[1] = q[1] /\ p[2] < q[2])

C30_NonPositiveLimit ==
    (op = "search" /\ args.limit <= 0) =>
        \E order \in ScopeOrders :
            IF ScopeMatches(order, args.query) = {} THEN result = <<>>
            ELSE /\ Len(result) = 1
                 /\ \E p \in ScopeMatches(order, args.query) :
                       /\ result[1] = scriptures[order[p[1]]][p[2]]
                       /\ \A q \in ScopeMatches(order, args.query) : ~ScannedBefore(q, p)

====
